---- MODULE Spec2Model ----
(***************************************************************************)
(* Model of the log correlation and anomaly-detection engine of flashio   *)
(* (src/api/routes/correlation.py, src/api/routes/anomalies.py).          *)
(*                                                                         *)
(* Conventions                                                             *)
(*  - A log record is a record with a fixed set of fields; a key that the  *)
(*    Python dict does not carry has the value Absent, a JSON null the     *)
(*    value None.                                                          *)
(*  - A record's identity (Python id()) is its position in the request's   *)
(*    batch: a batch decoded from a request body holds distinct objects.   *)
(*  - A timestamp string is [kind, t]: "naive" (no UTC offset), "aware"    *)
(*    (with offset or trailing Z) or "bad" (missing, null, unparseable);   *)
(*    t is the instant in whole seconds.                                   *)
(*  - datetime.now() is the variable now; it is read once per call (a call *)
(*    is instantaneous at the model's one-second resolution) and advances  *)
(*    between calls (Tick).                                                *)
(*    Two readings within one call differ by less than a second            *)
(*    (SubSecond).                                                         *)
(*  - A message is a sequence of whitespace-separated words; a word is     *)
(*    [key, sep, val], its text being key \o sep \o val, where key is ""   *)
(*    or an identifier name, sep is "", "=" or ":" and val is alphanumeric.*)
(*  - uuid4 ids and detection wall-clock stamps of results are left out.   *)
(*  - Floats are fixed-point integers: sensitivity in tenths, confidence,  *)
(*    rates and means in thousandths; a comparison that involves a         *)
(*    standard deviation is decided exactly, by comparing squares.         *)
(***************************************************************************)
EXTENDS Integers, Sequences, FiniteSets, TLC

VARIABLES
    logs,       \* the batch handed to the operation
    now,        \* datetime.now()
    call,       \* the last operation called, with its arguments
    result,     \* what it returned
    prev,       \* find_temporal_correlations: the return value of the call before
    hist,       \* the historical batch handed to update_baseline
    config,     \* detector.config
    baseline,   \* detector.baseline_data
    tasks,      \* the /analyze requests in flight, each with its position
    detected_anomalies  \* the module-level store of /analyze, by anomaly id

vars == <<logs, now, call, result, prev, hist, config, baseline, tasks,
          detected_anomalies>>

detectorVars == <<hist, config, baseline, tasks, detected_anomalies>>

\* detected_anomalies = {}
NoAnomalies == <<>>

\* no request is in flight
NoTasks == <<>>

Absent == "<absent>"
None == "<null>"

(***************************************************************************)
(* Generic helpers                                                         *)
(***************************************************************************)
Range(s) == {s[i] : i \in 1..Len(s)}

Abs(x) == IF x < 0 THEN -x ELSE x

Min(a, b) == IF a <= b THEN a ELSE b
Max(a, b) == IF a >= b THEN a ELSE b

RECURSIVE SumSeq(_)
SumSeq(s) == IF s = <<>> THEN 0 ELSE s[1] + SumSeq(Tail(s))

RECURSIVE MaxSeq(_)
MaxSeq(s) == IF Len(s) = 1 THEN s[1]
             ELSE LET m == MaxSeq(Tail(s)) IN IF s[1] >= m THEN s[1] ELSE m

RECURSIVE MinSeq(_)
MinSeq(s) == IF Len(s) = 1 THEN s[1]
             ELSE LET m == MinSeq(Tail(s)) IN IF s[1] <= m THEN s[1] ELSE m

RECURSIVE SelectIdx(_, _)
\* the indices i of 1..n (ascending) with keep[i]
SelectIdx(n, keep) ==
    IF n = 0 THEN <<>>
    ELSE IF keep[n] THEN Append(SelectIdx(n - 1, keep), n) ELSE SelectIdx(n - 1, keep)

RECURSIVE Dedup(_)
\* first occurrences, in order
Dedup(s) ==
    IF s = <<>> THEN <<>>
    ELSE LET d == Dedup(SubSeq(s, 1, Len(s) - 1)) IN
         IF s[Len(s)] \in Range(d) THEN d ELSE Append(d, s[Len(s)])

RECURSIVE Repeat(_, _)
\* n copies of x
Repeat(x, n) == IF n = 0 THEN <<>> ELSE Append(Repeat(x, n - 1), x)

Take(s, n) == SubSeq(s, 1, IF Len(s) < n THEN Len(s) ELSE n)

\* Python's sorted()/list.sort(): stable, ascending by key. xs is a sequence
\* of positions, key[x] the integer key of position x.
RECURSIVE InsertStable(_, _, _)
InsertStable(s, x, key) ==
    IF s = <<>> THEN <<x>>
    ELSE IF key[x] < key[s[Len(s)]]
         THEN Append(InsertStable(SubSeq(s, 1, Len(s) - 1), x, key), s[Len(s)])
         ELSE Append(s, x)

RECURSIVE StableSort(_, _)
StableSort(xs, key) ==
    IF xs = <<>> THEN <<>>
    ELSE InsertStable(StableSort(SubSeq(xs, 1, Len(xs) - 1), key), xs[Len(xs)], key)

KeepCase(s) == s

\* str.lower() on the words of the model's vocabulary
Lower(s) ==
    CASE s = "ERROR" -> "error"
      [] s = "Error" -> "error"
      [] s = "CRITICAL" -> "critical"
      [] s = "Critical" -> "critical"
      [] s = "FATAL" -> "fatal"
      [] s = "WARNING" -> "warning"
      [] s = "WARN" -> "warn"
      [] s = "INFO" -> "info"
      [] s = "Timeout" -> "timeout"
      [] s = "Calling" -> "calling"
      [] OTHER -> s

\* dict.get(key, default) of a string-valued field
Get(log, field, default) == IF log[field] = Absent THEN default ELSE log[field]

\* a log record; message is the word sequence of log.get('message', '')
\* and timestamp the string of log.get('timestamp', '')
Log(ts, level, service, message, request_id, user_id, session_id, trace_id) ==
    [timestamp |-> ts, level |-> level, service |-> service, message |-> message,
     request_id |-> request_id, user_id |-> user_id, session_id |-> session_id,
     trace_id |-> trace_id]

Naive(t) == [kind |-> "naive", t |-> t]
Aware(t) == [kind |-> "aware", t |-> t]
Word(v) == [key |-> "", sep |-> "", val |-> v]
KeyWord(k, sep, v) == [key |-> k, sep |-> sep, val |-> v]

(***************************************************************************)
(* LogCorrelator.parse_timestamp                                           *)
(***************************************************************************)
BadTs == [kind |-> "bad", t |-> 0]

\* log.get('timestamp', '')
GetTs(log) == log.timestamp

\* parse_timestamp without the replacement of a trailing 'Z': a timestamp
\* with an offset fails both formats
ParseTimestampOffsetFails(ts, clk) ==
    IF ts.kind \in {"bad", "aware"} THEN [aware |-> FALSE, t |-> clk]
    ELSE [aware |-> FALSE, t |-> ts.t]

\* the datetime the string parses to: offset-aware or naive, and its instant;
\* datetime.now() (naive) when both formats fail
parse_timestamp(ts, clk) ==
    IF ts.kind = "bad" THEN [aware |-> FALSE, t |-> clk]
    ELSE [aware |-> ts.kind = "aware", t |-> ts.t]

\* comparing or subtracting an offset-aware and an offset-naive datetime
\* raises TypeError; a sort, max or min over a collection holding both kinds
\* compares one of each
MixedKinds(L, idxs, clk) ==
    \E i, j \in Range(idxs) :
        parse_timestamp(GetTs(L[i]), clk).aware # parse_timestamp(GetTs(L[j]), clk).aware

TimeKey(L, clk) == [i \in 1..Len(L) |-> parse_timestamp(GetTs(L[i]), clk).t]

(***************************************************************************)
(* LogCorrelator.extract_correlation_fields                                *)
(***************************************************************************)
Text(w) == w.key \o w.sep \o w.val

\* str.strip(':=[]()').strip() of one word
StripToken(w) ==
    IF w.key = "" THEN w.val
    ELSE IF w.val = "" THEN w.key
    ELSE Text(w)

\* name in message (substring test)
InMessage(msg, name) == \E i \in 1..Len(msg) : msg[i].key = name

\* 'user' in message
UserInMessage(msg) ==
    \E i \in 1..Len(msg) : msg[i].key = "user_id" \/ msg[i].val = "user"

\* message.split(name)[1].split()[0].strip(':=[]()').strip(), or "" when the
\* part after the first occurrence of name holds no token (IndexError,
\* swallowed) or the token strips to nothing
ScrapeId(msg, name) ==
    LET i == CHOOSE k \in 1..Len(msg) :
                 msg[k].key = name /\ \A h \in 1..(k - 1) : msg[h].key # name
        w == msg[i]
    IN  IF w.sep \o w.val # "" THEN StripToken([key |-> "", sep |-> w.sep, val |-> w.val])
        ELSE IF i = Len(msg) THEN ""
        ELSE IF msg[i + 1].key = name THEN ""
        ELSE StripToken(msg[i + 1])

\* one field of the loop body: <<found, value>>
ExtractField(log, field) ==
    IF log[field] # Absent THEN <<TRUE, log[field]>>
    ELSE LET message == log.message IN
         IF field = "request_id" /\ InMessage(message, "request_id")
         THEN LET id_part == ScrapeId(message, "request_id") IN
              IF id_part # "" THEN <<TRUE, id_part>> ELSE <<FALSE, Absent>>
         ELSE IF field = "user_id" /\ UserInMessage(message)
         THEN IF InMessage(message, "user_id")
              THEN LET user_part == ScrapeId(message, "user_id") IN
                   IF user_part # "" THEN <<TRUE, user_part>> ELSE <<FALSE, Absent>>
              ELSE <<FALSE, Absent>>
         ELSE <<FALSE, Absent>>

\* the returned dict: a function on the fields found (fields: a sequence)
extract_correlation_fields(log, fields) ==
    [f \in {g \in Range(fields) : ExtractField(log, g)[1]} |-> ExtractField(log, f)[2]]

(***************************************************************************)
(* detect_error_chains (POST /correlation/detect-chains)                   *)
(***************************************************************************)
ChainWindow == 600
TopChains == 10
ChainFields == <<"request_id", "user_id", "session_id">>
ChainLevels == {"error", "critical", "fatal", "warning"}

ConsumedNever(x, used_logs) == FALSE

\* "if id(candidate_log) in used_logs" / "if id(start_log) in used_logs"
Consumed(x, used_logs) == x \in used_logs

ChainFullOffByOne(chain, max_chain_length) == Len(chain) > max_chain_length

\* "if len(chain) >= max_chain_length: break"
ChainFull(chain, max_chain_length) == Len(chain) >= max_chain_length

TooLateWiderWindow(time_diff) == time_diff > ChainWindow + 100

\* "if time_diff > 600: break"
TooLate(time_diff) == time_diff > ChainWindow

\* "if len(chain) > 1"
KeepChain(chain) == Len(chain) > 1

\* candidate_service == start_service, or a shared correlation field
IsRelated(candidate_log, start_log) ==
    LET candidate_service == Get(candidate_log, "service", "")
        start_service == Get(start_log, "service", "")
        correlation_data == extract_correlation_fields(candidate_log, ChainFields)
        start_correlation_data == extract_correlation_fields(start_log, ChainFields)
    IN  \/ candidate_service = start_service
        \/ \E field \in Range(ChainFields) :
              /\ field \in DOMAIN correlation_data
              /\ field \in DOMAIN start_correlation_data
              /\ correlation_data[field] = start_correlation_data[field]
              /\ correlation_data[field] # None

\* the inner loop "for j in range(i + 1, len(sorted_errors))"; S is
\* sorted_errors as positions of the batch L. stop is the position of S the
\* loop broke at, or Len(S) + 1 when it ran to the end.
RECURSIVE ChainScan(_, _, _, _, _, _, _, _)
ChainScan(L, S, i, j, max_chain_length, clk, chain, used_logs) ==
    IF j > Len(S) THEN [chain |-> chain, used |-> used_logs, stop |-> j]
    ELSE IF ChainFull(chain, max_chain_length)
         THEN [chain |-> chain, used |-> used_logs, stop |-> j]
    ELSE IF Consumed(S[j], used_logs)
         THEN ChainScan(L, S, i, j + 1, max_chain_length, clk, chain, used_logs)
    ELSE LET candidate_time == parse_timestamp(GetTs(L[S[j]]), clk)
             start_time == parse_timestamp(GetTs(L[S[i]]), clk)
             time_diff == candidate_time.t - start_time.t
         IN  IF TooLate(time_diff)
             THEN [chain |-> chain, used |-> used_logs, stop |-> j]
             ELSE IF IsRelated(L[S[j]], L[S[i]])
                  THEN ChainScan(L, S, i, j + 1, max_chain_length, clk,
                                 Append(chain, S[j]), used_logs \cup {S[j]})
                  ELSE ChainScan(L, S, i, j + 1, max_chain_length, clk, chain, used_logs)

\* the dict appended to chains; logs holds the members as positions of the
\* batch. start and stop (where the forward scan began and ended, as
\* positions of sorted_errors) are history fields, not part of the response.
MakeChain(L, S, i, r, clk) ==
    LET chain == r.chain
        first == L[chain[1]]
        last == L[chain[Len(chain)]]
    IN  [length |-> Len(chain),
         duration |-> parse_timestamp(GetTs(last), clk).t - parse_timestamp(GetTs(first), clk).t,
         services |-> {Get(L[chain[k]], "service", "unknown") : k \in 1..Len(chain)},
         start_time |-> first.timestamp,
         end_time |-> last.timestamp,
         logs |-> chain,
         severity |-> IF \E k \in 1..Len(chain) :
                           Lower(Get(L[chain[k]], "level", "")) \in {"critical", "fatal"}
                      THEN "critical" ELSE "high",
         start |-> i,
         stop |-> r.stop]

\* the outer loop "for i, start_log in enumerate(sorted_errors)"
RECURSIVE ChainLoop(_, _, _, _, _, _, _)
ChainLoop(L, S, i, max_chain_length, clk, chains, used_logs) ==
    IF i > Len(S) THEN chains
    ELSE IF Consumed(S[i], used_logs)
         THEN ChainLoop(L, S, i + 1, max_chain_length, clk, chains, used_logs)
    ELSE LET r == ChainScan(L, S, i, i + 1, max_chain_length, clk,
                            <<S[i]>>, used_logs \cup {S[i]})
         IN  ChainLoop(L, S, i + 1, max_chain_length, clk,
                       IF KeepChain(r.chain)
                       THEN Append(chains, MakeChain(L, S, i, r, clk)) ELSE chains,
                       r.used)

\* chains.sort(key=lambda x: (x["length"], x["duration"]), reverse=True):
\* stable, descending; a duration is at most ChainWindow
SortChains(chains) ==
    LET key == [k \in 1..Len(chains) |->
                   -(chains[k].length * (ChainWindow + 1) + chains[k].duration)]
        order == StableSort([k \in 1..Len(chains) |-> k], key)
    IN  [k \in 1..Len(chains) |-> chains[order[k]]]

\* the handler: the response, or "error" (HTTPException 500) when an
\* exception is raised inside the try block
ErrorLogs(L) ==
    SelectIdx(Len(L), [k \in 1..Len(L) |-> Lower(Get(L[k], "level", "")) \in ChainLevels])

SortedErrors(L, clk) == StableSort(ErrorLogs(L), TimeKey(L, clk))

detect_error_chains(L, max_chain_length, clk) ==
    LET error_logs == ErrorLogs(L)
    IN  IF error_logs = <<>>
        THEN [status |-> "ok", message |-> "No error logs found", total_error_logs |-> 0,
              chains_detected |-> 0, chains |-> <<>>]
        ELSE IF MixedKinds(L, error_logs, clk)
        THEN [status |-> "error", message |-> "Failed to detect error chains",
              total_error_logs |-> 0, chains_detected |-> 0, chains |-> <<>>]
        ELSE LET sorted_errors == SortedErrors(L, clk)
                 chains == SortChains(ChainLoop(L, sorted_errors, 1, max_chain_length,
                                                clk, <<>>, {}))
             IN  [status |-> "ok", message |-> "", total_error_logs |-> Len(error_logs),
                  chains_detected |-> Len(chains), chains |-> Take(chains, TopChains)]

(***************************************************************************)
(* LogCorrelator.find_temporal_correlations                                *)
(***************************************************************************)
AllIdx(L) == [k \in 1..Len(L) |-> k]

Raised == [status |-> "error", groups |-> <<>>]

\* |other_time - primary_time| in seconds
TimeDiff(L, a, b, clk) ==
    Abs(parse_timestamp(GetTs(L[a]), clk).t - parse_timestamp(GetTs(L[b]), clk).t)

\* two records whose timestamps both fail to parse get two successive readings
\* of datetime.now(): their difference is positive and below one second
SubSecond(L, a, b) == a # b /\ GetTs(L[a]).kind = "bad" /\ GetTs(L[b]).kind = "bad"

\* "if time_diff <= time_window", time_diff in whole seconds and sub telling
\* that a positive fraction of a second comes on top
WithinWindow(time_diff, sub, time_window) ==
    IF sub THEN time_diff < time_window ELSE time_diff <= time_window

\* max(0.1, 1.0 - avg_time_diff / time_window), in thousandths
TemporalStrength(sum_diff, count, time_window) ==
    Max(100, 1000 - (1000 * sum_diff) \div (count * time_window))

\* the related logs of the primary at position i of sorted_logs S
TemporalRelated(L, S, i, time_window, clk) ==
    LET keep == [j \in 1..Len(S) |->
                    j # i /\ WithinWindow(TimeDiff(L, S[j], S[i], clk),
                                         SubSecond(L, S[j], S[i]), time_window)]
        pos == SelectIdx(Len(S), keep)
    IN  [k \in 1..Len(pos) |-> S[pos[k]]]

TemporalGroup(L, primary, related, time_window, clk) ==
    LET diffs == [k \in 1..Len(related) |-> TimeDiff(L, related[k], primary, clk)] IN
    [correlation_type |-> "temporal",
     primary_log |-> primary,
     related_logs |-> related,
     correlation_strength |-> TemporalStrength(SumSeq(diffs), Len(related), time_window),
     time_span |-> MaxSeq(diffs),
     services_involved |-> {Get(L[primary], "service", "unknown")}
                           \cup {Get(L[related[k]], "service", "unknown") :
                                    k \in 1..Len(related)},
     correlation_fields |-> [time_window |-> time_window]]

\* the groups, or Raised: sorting or subtracting datetimes of both kinds
\* raises TypeError, dividing by a zero time_window ZeroDivisionError
find_temporal_correlations(L, time_window, clk) ==
    IF MixedKinds(L, AllIdx(L), clk) THEN Raised
    ELSE LET sorted_logs == StableSort(AllIdx(L), TimeKey(L, clk))
             related == [i \in 1..Len(L) |->
                            TemporalRelated(L, sorted_logs, i, time_window, clk)]
             emitting == SelectIdx(Len(L), [i \in 1..Len(L) |-> related[i] # <<>>])
         IN  IF emitting # <<>> /\ time_window = 0 THEN Raised
             ELSE [status |-> "ok",
                   groups |-> [k \in 1..Len(emitting) |->
                                  TemporalGroup(L, sorted_logs[emitting[k]],
                                                related[emitting[k]], time_window, clk)]]

(***************************************************************************)
(* LogCorrelator.find_field_based_correlations                             *)
(***************************************************************************)
\* "if value:" on a field value
Truthy(value) == value # "" /\ value # None

\* f"{field}:{value}"
FieldKey(field, value) == field \o ":" \o (IF value = None THEN "None" ELSE value)

\* the (key, position) pairs appended to field_groups for record i, in the
\* order of the extracted dict
FieldEntries(L, i, fields) ==
    LET data == extract_correlation_fields(L[i], fields)
        found == SelectIdx(Len(fields),
                     [k \in 1..Len(fields) |->
                         /\ fields[k] \in DOMAIN data
                         /\ fields[k] \notin {fields[h] : h \in 1..(k - 1)}
                         /\ Truthy(data[fields[k]])])
    IN  [k \in 1..Len(found) |->
            [key |-> FieldKey(fields[found[k]], data[fields[found[k]]]),
             field |-> fields[found[k]], value |-> data[fields[found[k]]], log |-> i]]

RECURSIVE Flatten(_, _)
\* f[1] \o ... \o f[n]
Flatten(f, n) == IF n = 0 THEN <<>> ELSE Flatten(f, n - 1) \o f[n]

\* a defaultdict(list) filled by the (key, position) entries: its keys in
\* insertion order and the members of each key in insertion order
BucketKeys(entries) == Dedup([k \in 1..Len(entries) |-> entries[k].key])
BucketMembers(entries, key) ==
    LET pos == SelectIdx(Len(entries), [k \in 1..Len(entries) |-> entries[k].key = key])
    IN  [k \in 1..Len(pos) |-> entries[pos[k]].log]

\* (max(timestamps) - min(timestamps)).total_seconds() if len(timestamps) > 1 else 0
TimeSpan(L, members, clk) ==
    LET ts == [k \in 1..Len(members) |-> parse_timestamp(GetTs(L[members[k]]), clk).t]
    IN  IF Len(members) > 1 THEN MaxSeq(ts) - MinSeq(ts) ELSE 0

\* "if len(group_logs) > 1"
FieldGroupEmitted(group_logs) == Len(group_logs) > 1

FieldStrengthUncapped(size) == 100 * size

\* min(1.0, len(group_logs) / 10.0), in thousandths
FieldStrength(size) == Min(1000, 100 * size)

FieldGroup(L, entries, key, clk) ==
    LET group_logs == BucketMembers(entries, key)
        e == entries[CHOOSE k \in 1..Len(entries) : entries[k].key = key]
    IN  [correlation_type |-> "field_based",
         primary_log |-> group_logs[1],
         related_logs |-> Tail(group_logs),
         correlation_strength |-> FieldStrength(Len(group_logs)),
         time_span |-> TimeSpan(L, group_logs, clk),
         services_involved |-> {Get(L[group_logs[k]], "service", "unknown") :
                                   k \in 1..Len(group_logs)},
         correlation_fields |-> [field |-> e.field, value |-> e.value,
                                 group_size |-> Len(group_logs)]]

\* the groups of the buckets in keys that pass emitted, or Raised when the
\* timestamps of an emitted bucket are of both kinds (max() raises TypeError)
find_field_based_correlations(L, fields, clk) ==
    LET entries == Flatten([i \in 1..Len(L) |-> FieldEntries(L, i, fields)], Len(L))
        keys == BucketKeys(entries)
        emitted == SelectIdx(Len(keys),
                       [k \in 1..Len(keys) |-> FieldGroupEmitted(BucketMembers(entries, keys[k]))])
    IN  IF \E k \in Range(emitted) : MixedKinds(L, BucketMembers(entries, keys[k]), clk)
        THEN Raised
        ELSE [status |-> "ok",
              groups |-> [k \in 1..Len(emitted) |->
                             FieldGroup(L, entries, keys[emitted[k]], clk)]]

(***************************************************************************)
(* LogCorrelator.find_pattern_correlations                                 *)
(***************************************************************************)
\* message.lower().split()
LowerWords(msg) == [k \in 1..Len(msg) |-> Lower(Text(msg[k]))]

\* ' '.join(words[:3])
FirstThree(words) == words[1] \o " " \o words[2] \o " " \o words[3]

\* "if len(words) >= 3": the record's pattern key, as the one entry of a sequence
PatternEntries(L, i) ==
    LET words == LowerWords(L[i].message) IN
    IF Len(words) >= 3
    THEN << [key |-> Get(L[i], "level", "") \o ":" \o Get(L[i], "service", "") \o ":"
                        \o FirstThree(words),
             log |-> i] >>
    ELSE <<>>

PatternGroupEmittedAtTwo(group_logs) == Len(group_logs) > 1

\* "if len(group_logs) > 2"
PatternGroupEmitted(group_logs) == Len(group_logs) > 2

\* min(1.0, len(group_logs) / 5.0), in thousandths
PatternStrength(size) == Min(1000, 200 * size)

PatternGroup(L, entries, key, clk) ==
    LET group_logs == BucketMembers(entries, key) IN
    [correlation_type |-> "pattern_based",
     primary_log |-> group_logs[1],
     related_logs |-> Tail(group_logs),
     correlation_strength |-> PatternStrength(Len(group_logs)),
     time_span |-> TimeSpan(L, group_logs, clk),
     services_involved |-> {Get(L[group_logs[k]], "service", "unknown") :
                               k \in 1..Len(group_logs)},
     correlation_fields |-> [pattern |-> key, occurrences |-> Len(group_logs)]]

find_pattern_correlations(L, clk) ==
    LET entries == Flatten([i \in 1..Len(L) |-> PatternEntries(L, i)], Len(L))
        keys == BucketKeys(entries)
        emitted == SelectIdx(Len(keys),
                       [k \in 1..Len(keys) |->
                           PatternGroupEmitted(BucketMembers(entries, keys[k]))])
    IN  IF \E k \in Range(emitted) : MixedKinds(L, BucketMembers(entries, keys[k]), clk)
        THEN Raised
        ELSE [status |-> "ok",
              groups |-> [k \in 1..Len(emitted) |->
                             PatternGroup(L, entries, keys[emitted[k]], clk)]]

(***************************************************************************)
(* LogCorrelator.trace_service_flows                                       *)
(***************************************************************************)
FlowFields == <<"request_id", "trace_id", "session_id">>
MessageLimit == 100

\* the number of characters of a message: its words joined by one blank
RECURSIVE MessageLen(_)
MessageLen(msg) ==
    IF msg = <<>> THEN 0
    ELSE Len(Text(msg[1])) + (IF Len(msg) > 1 THEN 1 ELSE 0) + MessageLen(Tail(msg))

\* message[:100]; a message of the model is shorter than the limit, a longer
\* one would be cut to its leading words
RECURSIVE Truncate(_)
Truncate(msg) ==
    IF MessageLen(msg) <= MessageLimit THEN msg
    ELSE Truncate(SubSeq(msg, 1, Len(msg) - 1))

\* the (value, position) pairs appended to request_groups for record i
FlowEntries(L, i) ==
    LET data == extract_correlation_fields(L[i], FlowFields)
        found == SelectIdx(Len(FlowFields),
                     [k \in 1..Len(FlowFields) |->
                         FlowFields[k] \in DOMAIN data /\ Truthy(data[FlowFields[k]])])
    IN  [k \in 1..Len(found) |-> [key |-> data[FlowFields[found[k]]], log |-> i]]

\* "if len(request_logs) > 1"
FlowEmitted(request_logs) == Len(request_logs) > 1

\* sorted(request_logs, key=parse_timestamp): request_logs may hold a
\* position twice, so the sort runs on the slots of request_logs
SortFlow(L, request_logs, clk) ==
    LET key == [k \in 1..Len(request_logs) |->
                   parse_timestamp(GetTs(L[request_logs[k]]), clk).t]
        order == StableSort(AllIdx(request_logs), key)
    IN  [k \in 1..Len(request_logs) |-> request_logs[order[k]]]

\* services: "if service not in services: services.append(service)" over sorted_logs
FlowServices(L, request_logs, sorted_logs) ==
    Dedup([k \in 1..Len(sorted_logs) |-> Get(L[sorted_logs[k]], "service", "unknown")])

MakeFlow(L, request_id, request_logs, clk) ==
    LET sorted_logs == SortFlow(L, request_logs, clk)
        level == [k \in 1..Len(sorted_logs) |-> Lower(Get(L[sorted_logs[k]], "level", ""))]
        err == SelectIdx(Len(sorted_logs),
                   [k \in 1..Len(sorted_logs) |-> level[k] \in {"error", "critical", "fatal"}])
        warn == SelectIdx(Len(sorted_logs),
                    [k \in 1..Len(sorted_logs) |-> level[k] \in {"warn", "warning"}])
    IN  [request_id |-> request_id,
         services |-> FlowServices(L, request_logs, sorted_logs),
         timeline |-> [k \in 1..Len(sorted_logs) |->
                          [log |-> sorted_logs[k],
                           timestamp |-> L[sorted_logs[k]].timestamp,
                           service |-> Get(L[sorted_logs[k]], "service", "unknown"),
                           level |-> L[sorted_logs[k]].level,
                           message |-> Truncate(L[sorted_logs[k]].message)]],
         total_duration |-> parse_timestamp(GetTs(L[sorted_logs[Len(sorted_logs)]]), clk).t
                            - parse_timestamp(GetTs(L[sorted_logs[1]]), clk).t,
         errors |-> [k \in 1..Len(err) |-> sorted_logs[err[k]]],
         warnings |-> [k \in 1..Len(warn) |-> sorted_logs[warn[k]]]]

\* the flows, or Raised when the timestamps of an emitted bucket are of both
\* kinds (sorted() raises TypeError)
trace_service_flows(L, clk) ==
    LET entries == Flatten([i \in 1..Len(L) |-> FlowEntries(L, i)], Len(L))
        keys == BucketKeys(entries)
        emitted == SelectIdx(Len(keys),
                       [k \in 1..Len(keys) |-> FlowEmitted(BucketMembers(entries, keys[k]))])
    IN  IF \E k \in Range(emitted) : MixedKinds(L, BucketMembers(entries, keys[k]), clk)
        THEN [status |-> "error", flows |-> <<>>]
        ELSE [status |-> "ok",
              flows |-> [k \in 1..Len(emitted) |->
                            MakeFlow(L, keys[emitted[k]],
                                     BucketMembers(entries, keys[emitted[k]]), clk)]]

(***************************************************************************)
(* find_related_logs (POST /correlation/find-related)                      *)
(***************************************************************************)
RelatedLimit == 20

RECURSIVE Factorial(_)
Factorial(n) == IF n = 0 THEN 1 ELSE n * Factorial(n - 1)

\* the denominator of every correlation_score of one call: scores are exact
\* fractions num / ScoreDen
ScoreDen(fields, time_window) ==
    10 * Factorial(Len(fields)) * (IF time_window > 0 THEN time_window ELSE 1)

\* the positions k of correlation_fields with "field in primary_correlation_data
\* and field in candidate_correlation_data"
ComparedFields(pdata, cdata, fields) ==
    SelectIdx(Len(fields),
        [k \in 1..Len(fields) |-> fields[k] \in DOMAIN pdata /\ fields[k] \in DOMAIN cdata])

\* ... and primary_correlation_data[field] == candidate_correlation_data[field]
MatchingFields(pdata, cdata, fields) ==
    SelectIdx(Len(fields),
        [k \in 1..Len(fields) |->
            /\ fields[k] \in DOMAIN pdata /\ fields[k] \in DOMAIN cdata
            /\ pdata[fields[k]] = cdata[fields[k]]])

\* |candidate_time - primary_time| in whole seconds
RelatedTimeDiff(primary_log, candidate, clk) ==
    Abs(parse_timestamp(GetTs(candidate), clk).t - parse_timestamp(GetTs(primary_log), clk).t)

\* both timestamps fail to parse: two successive readings of datetime.now()
RelatedSubSecond(primary_log, candidate) ==
    GetTs(primary_log).kind = "bad" /\ GetTs(candidate).kind = "bad"

\* temporal_match = time_diff <= time_window
TemporalMatch(primary_log, candidate, time_window, clk) ==
    WithinWindow(RelatedTimeDiff(primary_log, candidate, clk),
                 RelatedSubSecond(primary_log, candidate), time_window)

\* the numerator of 0.3 * (1.0 - time_diff / time_window), over ScoreDen
TemporalScore(time_diff, fields, time_window) ==
    3 * (time_window - time_diff) * Factorial(Len(fields))

\* the numerator of 0.7 * field_match_ratio, over ScoreDen
FieldScore(field_matches, total_fields, fields, time_window) ==
    IF total_fields > 0
    THEN 7 * field_matches * (Factorial(Len(fields)) \div total_fields)
           * (IF time_window > 0 THEN time_window ELSE 1)
    ELSE 0

\* correlation_score of one candidate, as a numerator over ScoreDen
CorrelationScore(primary_log, candidate, fields, time_window, clk) ==
    LET pdata == extract_correlation_fields(primary_log, fields)
        cdata == extract_correlation_fields(candidate, fields)
    IN  (IF TemporalMatch(primary_log, candidate, time_window, clk)
         THEN TemporalScore(RelatedTimeDiff(primary_log, candidate, clk), fields, time_window)
         ELSE 0)
        + FieldScore(Len(MatchingFields(pdata, cdata, fields)),
                     Len(ComparedFields(pdata, cdata, fields)), fields, time_window)

\* "if correlation_score > 0.2"
AboveThreshold(score, den) == 10 * score > 2 * den

\* the loop over one candidate raises: TypeError on subtracting datetimes of
\* both kinds, ZeroDivisionError on a temporal match with time_window 0
RelatedRaises(primary_log, candidate, time_window, clk) ==
    \/ parse_timestamp(GetTs(primary_log), clk).aware
           # parse_timestamp(GetTs(candidate), clk).aware
    \/ time_window = 0 /\ TemporalMatch(primary_log, candidate, time_window, clk)

RelatedEntry(primary_log, L, i, fields, time_window, clk) ==
    LET pdata == extract_correlation_fields(primary_log, fields)
        cdata == extract_correlation_fields(L[i], fields)
        matching == MatchingFields(pdata, cdata, fields)
    IN  [log |-> i,
         correlation_score |-> CorrelationScore(primary_log, L[i], fields, time_window, clk),
         time_difference |-> RelatedTimeDiff(primary_log, L[i], clk),
         field_matches |-> Len(matching),
         matching_fields |-> [k \in 1..Len(matching) |-> fields[matching[k]]]]

\* related_logs.sort(key=correlation_score, reverse=True): stable, descending
RelatedSort(L, score) == StableSort(L, [i \in DOMAIN score |-> 0 - score[i]])

\* the response of find_related_logs; score_den is the denominator of the
\* scores it carries
find_related_logs(primary_log, candidate_logs, fields, time_window, clk) ==
    IF \E i \in 1..Len(candidate_logs) :
           RelatedRaises(primary_log, candidate_logs[i], time_window, clk)
    THEN [status |-> "error", related_logs |-> <<>>, total_candidates |-> 0,
          related_count |-> 0, score_den |-> 1]
    ELSE LET den == ScoreDen(fields, time_window)
             score == [i \in 1..Len(candidate_logs) |->
                          CorrelationScore(primary_log, candidate_logs[i], fields,
                                           time_window, clk)]
             kept == SelectIdx(Len(candidate_logs),
                         [i \in 1..Len(candidate_logs) |-> AboveThreshold(score[i], den)])
             sorted == RelatedSort(kept, score)
             top == Take(sorted, RelatedLimit)
         IN  [status |-> "ok",
              related_logs |-> [k \in 1..Len(top) |->
                                   RelatedEntry(primary_log, candidate_logs, top[k], fields,
                                                time_window, clk)],
              total_candidates |-> Len(candidate_logs),
              related_count |-> Len(kept),
              score_den |-> den]

(***************************************************************************)
(* AnomalyDetector (src/api/routes/anomalies.py)                           *)
(***************************************************************************)
\* AnomalyConfig(); sensitivity 0.8 is 8 tenths
DefaultConfig ==
    [enabled |-> TRUE, sensitivity |-> 8, time_window |-> 3600, min_samples |-> 10,
     detection_methods |-> <<"volume", "pattern", "timing">>]

\* AnomalyDetector.__init__: baseline_data = defaultdict(list)
EmptyBaseline == [hourly_volume |-> <<>>, error_rate |-> <<>>, response_times |-> <<>>]

ErrorLevels == {"error", "critical", "fatal"}

\* dt.hour of datetime.fromisoformat(timestamp.replace('Z', '+00:00'))
HourOf(ts) == (ts.t \div 3600) % 24

\* float(time_str.replace('ms', '').replace(':', '')) on the model's
\* vocabulary: <<ok, value>>
ToFloat(sep, val) ==
    IF sep = "=" THEN <<FALSE, 0>>
    ELSE CASE val = "120ms" -> <<TRUE, 120>>
           [] val = "45" -> <<TRUE, 45>>
           [] OTHER -> <<FALSE, 0>>

\* message.split('response_time')[1].split()[0], converted: <<ok, value>>
ResponseTime(msg) ==
    LET i == CHOOSE k \in 1..Len(msg) :
                 msg[k].key = "response_time"
                 /\ \A h \in 1..(k - 1) : msg[h].key # "response_time"
        w == msg[i]
    IN  IF w.sep \o w.val # "" THEN ToFloat(w.sep, w.val)
        ELSE IF i = Len(msg) THEN <<FALSE, 0>>
        ELSE IF msg[i + 1].key # "" THEN <<FALSE, 0>>
        ELSE ToFloat("", msg[i + 1].val)

\* the k-th smallest member of a set of positions
Nth(S, k) == CHOOSE i \in S : Cardinality({j \in S : j < i}) = k - 1

\* the members of a set of positions, ascending
Ascending(S) == [k \in 1..Cardinality(S) |-> Nth(S, k)]

\* the response time scraped from a record's message: <<ok, value>>
ScrapedTime(log) ==
    IF InMessage(log.message, "response_time") THEN ResponseTime(log.message)
    ELSE <<FALSE, 0>>

\* update_baseline extending the stored series instead of replacing them
UpdateBaselineExtends(old, L) ==
    IF L = <<>> THEN old
    ELSE LET parsed == {i \in 1..Len(L) : GetTs(L[i]).kind # "bad"}
             hours == {HourOf(GetTs(L[i])) : i \in parsed}
         IN  [hourly_volume |-> old.hourly_volume
                                 \o [k \in 1..Cardinality(hours) |-> Cardinality(parsed)],
              error_rate |-> old.error_rate \o [k \in 1..Cardinality(parsed) |-> 0],
              response_times |-> old.response_times]

ErrorRateSampledAll(L, parsed) == 1..Len(L)

\* the records that get an error_rate sample: the append is inside the try,
\* after fromisoformat and the hour count
ErrorRateSampled(L, parsed) == parsed

\* AnomalyDetector.update_baseline: the new baseline_data. The loop skips a
\* record whose timestamp fromisoformat rejects; hourly_counts keeps its keys
\* in first-seen order.
update_baseline(old, L) ==
    IF L = <<>> THEN old
    ELSE LET parsed == {i \in 1..Len(L) : GetTs(L[i]).kind # "bad"}
             hour_key == [i \in parsed |-> HourOf(GetTs(L[i]))]
             first_seen == {i \in parsed : \A j \in parsed : j < i => hour_key[j] # hour_key[i]}
             timed == {i \in parsed : ScrapedTime(L[i])[1]}
         IN  [hourly_volume |->
                 [k \in 1..Cardinality(first_seen) |->
                     Cardinality({j \in parsed : hour_key[j] = hour_key[Nth(first_seen, k)]})],
              error_rate |->
                 [k \in 1..Cardinality(ErrorRateSampled(L, parsed)) |->
                     IF Lower(Get(L[Nth(ErrorRateSampled(L, parsed), k)], "level", ""))
                            \in ErrorLevels
                     THEN 1 ELSE 0],
              response_times |->
                 [k \in 1..Cardinality(timed) |-> ScrapedTime(L[Nth(timed, k)])[2]]]

\* floor of the square root
RECURSIVE Isqrt(_)
Isqrt(n) ==
    IF n < 2 THEN n
    ELSE LET small == 2 * Isqrt(n \div 4)
             large == small + 1
         IN  IF large * large > n THEN small ELSE large

GtSqrtInclusive(a, b, v) == a >= 0 /\ a * a >= b * b * v

\* a > b * sqrt(v), for b >= 0 and v >= 0
GtSqrt(a, b, v) == a > 0 /\ a * a > b * b * v

\* n times n times the variance of xs (np.std is the population deviation)
VarN2(xs) ==
    Len(xs) * SumSeq([k \in 1..Len(xs) |-> xs[k] * xs[k]]) - SumSeq(xs) * SumSeq(xs)

\* current_volume > factor * threshold, with factor = fnum / fden and
\* threshold = baseline_mean + 2 * baseline_std * sensitivity
AboveHigh(current_volume, xs, sensitivity, fnum, fden) ==
    GtSqrt(10 * Len(xs) * fden * current_volume - 10 * fnum * SumSeq(xs),
           2 * fnum * sensitivity, VarN2(xs))

\* baseline_mean - 2 * baseline_std * sensitivity > 0, so that low_threshold
\* is that difference and not the 0 of max(0, ...)
LowPositive(xs, sensitivity) == GtSqrt(10 * SumSeq(xs), 2 * sensitivity, VarN2(xs))

\* current_volume < factor * low_threshold
BelowLow(current_volume, xs, sensitivity, fnum, fden) ==
    /\ LowPositive(xs, sensitivity)
    /\ GtSqrt(10 * fnum * SumSeq(xs) - 10 * Len(xs) * fden * current_volume,
              2 * fnum * sensitivity, VarN2(xs))

\* the thresholds times 1000 * Len(xs), the deviation to two decimals
HighScaled(xs, sensitivity) ==
    1000 * SumSeq(xs) + 2 * sensitivity * Isqrt(10000 * VarN2(xs))
LowScaled(xs, sensitivity) ==
    Max(0, 1000 * SumSeq(xs) - 2 * sensitivity * Isqrt(10000 * VarN2(xs)))

ConfidenceCap == 950

ConfidenceUncapped(excess, threshold) == (1000 * excess) \div threshold

\* min(0.95, excess / threshold), in thousandths
Confidence(excess, threshold) == Min(ConfidenceCap, (1000 * excess) \div threshold)

MinBaseline == 5
AffectedSample == 10

TooFewSamplesNever(n) == FALSE

\* "if len(baseline_volumes) < 5"
TooFewSamples(n) == n < MinBaseline

\* AnomalyDetector.detect_volume_anomalies: the list of anomalies.
\* affected_logs holds positions of current_logs; id is the prefix and the
\* clock second of f"volume_high_{int(datetime.now().timestamp())}"
detect_volume_anomalies(cfg, base, current_logs, clk) ==
    LET current_volume == Len(current_logs)
        baseline_volumes == base.hourly_volume
        n == Len(baseline_volumes)
        s == cfg.sensitivity
        stats == [mean |-> (1000 * SumSeq(baseline_volumes)) \div n,
                  std |-> Isqrt(1000000 * VarN2(baseline_volumes)) \div n]
    IN  IF Len(current_logs) < cfg.min_samples THEN <<>>
        ELSE IF TooFewSamples(n) THEN <<>>
        ELSE IF AboveHigh(current_volume, baseline_volumes, s, 1, 1)
        THEN << [id |-> <<"volume_high", clk>>,
                 type |-> "volume",
                 severity |-> IF AboveHigh(current_volume, baseline_volumes, s, 3, 2)
                              THEN "high" ELSE "medium",
                 affected_logs |-> Take([k \in 1..Len(current_logs) |-> k], AffectedSample),
                 metrics |-> [current_volume |-> current_volume,
                              baseline_mean |-> stats.mean, baseline_std |-> stats.std],
                 confidence |-> Confidence(1000 * n * current_volume
                                               - HighScaled(baseline_volumes, s),
                                           HighScaled(baseline_volumes, s))] >>
        ELSE IF BelowLow(current_volume, baseline_volumes, s, 1, 1)
        THEN << [id |-> <<"volume_low", clk>>,
                 type |-> "volume",
                 severity |-> IF BelowLow(current_volume, baseline_volumes, s, 1, 2)
                              THEN "medium" ELSE "low",
                 affected_logs |-> [k \in 1..Len(current_logs) |-> k],
                 metrics |-> [current_volume |-> current_volume,
                              baseline_mean |-> stats.mean, baseline_std |-> stats.std],
                 confidence |-> Confidence(LowScaled(baseline_volumes, s)
                                               - 1000 * n * current_volume,
                                           LowScaled(baseline_volumes, s))] >>
        ELSE <<>>

(***************************************************************************)
(* AnomalyDetector.detect_pattern_anomalies                                *)
(***************************************************************************)
MinErrorBaseline == 10
ErrorSample == 10
PatternSample == 5
RepeatCount == 5
RepeatConfidenceCap == 900

\* the positions of current_logs at an error level
ErrorPositions(current_logs) ==
    {i \in 1..Len(current_logs) :
        Lower(Get(current_logs[i], "level", "")) \in ErrorLevels}

\* error_rate > factor * (baseline_error_rate + 0.1 * sensitivity), with
\* factor = 1 for the threshold itself; all terms over 100 * total * samples
ErrorThreshold(base, sensitivity, total) ==
    100 * SumSeq(base.error_rate) * total + sensitivity * total * Len(base.error_rate)

ErrorRateScaled(error_count, base) == 100 * error_count * Len(base.error_rate)

ErrorSeverityInclusive(error_count, total) ==
    IF 2 * error_count >= total THEN "critical"
    ELSE IF 5 * error_count >= total THEN "high"
    ELSE "medium"

\* "critical" if error_rate > 0.5 else "high" if error_rate > 0.2 else "medium"
ErrorSeverity(error_count, total) ==
    IF 2 * error_count > total THEN "critical"
    ELSE IF 5 * error_count > total THEN "high"
    ELSE "medium"

\* min(0.95, (error_rate - error_threshold) / error_threshold), in
\* thousandths; a zero threshold divides a numpy float to inf
ErrorConfidence(excess, threshold) ==
    IF threshold = 0 THEN ConfidenceCap ELSE Confidence(excess, threshold)

\* "if len(baseline_error_rates) < 10: return anomalies"
ReturnsEarly(base) == Len(base.error_rate) < MinErrorBaseline

\* the error-rate anomaly, as a sequence of none or one
ErrorRateAnomaly(cfg, base, current_logs, clk) ==
    LET total == Len(current_logs)
        errors == ErrorPositions(current_logs)
        error_count == Cardinality(errors)
        threshold == ErrorThreshold(base, cfg.sensitivity, total)
        rate == ErrorRateScaled(error_count, base)
    IN  IF total > 0 /\ rate > threshold
        THEN << [id |-> <<"pattern_error", clk>>,
                 type |-> "pattern",
                 severity |-> ErrorSeverity(error_count, total),
                 affected_logs |-> Take(Ascending(errors), ErrorSample),
                 metrics |-> [current_error_count |-> error_count,
                              baseline_error_count |-> SumSeq(base.error_rate)],
                 confidence |-> ErrorConfidence(rate - threshold, threshold)] >>
        ELSE <<>>

\* "if len(words) > 3"
Counted(words) == Len(words) > 3

\* the pattern of record i, or Absent when the record is not counted
MessagePattern(current_logs, i) ==
    LET words == LowerWords(current_logs[i].message) IN
    IF Counted(words) THEN FirstThree(words) ELSE Absent

\* message_patterns: the Counter's keys in first-seen order
MessagePatterns(current_logs) ==
    LET counted == {i \in 1..Len(current_logs) : MessagePattern(current_logs, i) # Absent}
        first_seen == {i \in counted :
                          \A j \in counted :
                              j < i => MessagePattern(current_logs, j)
                                           # MessagePattern(current_logs, i)}
    IN  [k \in 1..Cardinality(first_seen) |-> MessagePattern(current_logs, Nth(first_seen, k))]

PatternCount(current_logs, pattern) ==
    Cardinality({i \in 1..Len(current_logs) : MessagePattern(current_logs, i) = pattern})

\* "if frequency > 0.1 and count > 5"
Frequent(count, total) == 10 * count > total /\ count > RepeatCount

\* "pattern in log.get('message', '').lower()": the pattern is a substring of
\* the lowercased message. No word of the model's vocabulary is a proper
\* prefix or suffix of another, so the substring starts and ends at words.
ContainsPattern(current_logs, i, pattern) ==
    LET words == LowerWords(current_logs[i].message) IN
    \E k \in 1..(Len(words) - 2) :
        FirstThree(<<words[k], words[k + 1], words[k + 2]>>) = pattern

\* min(0.9, frequency * 2), in thousandths
RepeatConfidence(count, total) == Min(RepeatConfidenceCap, (2000 * count) \div total)

RepeatAnomaly(current_logs, pattern, clk) ==
    LET count == PatternCount(current_logs, pattern)
        matching == {i \in 1..Len(current_logs) : ContainsPattern(current_logs, i, pattern)}
    IN  [id |-> <<"pattern_repeat", clk, pattern>>,
         type |-> "pattern",
         severity |-> "medium",
         affected_logs |-> Take(Ascending(matching), PatternSample),
         metrics |-> [pattern_count |-> count, total_logs |-> Len(current_logs)],
         confidence |-> RepeatConfidence(count, Len(current_logs))]

\* the repeated-pattern anomalies, in the Counter's order
RepeatAnomalies(current_logs, clk) ==
    LET patterns == MessagePatterns(current_logs)
        frequent == {k \in 1..Len(patterns) :
                        Frequent(PatternCount(current_logs, patterns[k]), Len(current_logs))}
    IN  [k \in 1..Cardinality(frequent) |->
            RepeatAnomaly(current_logs, patterns[Nth(frequent, k)], clk)]

\* AnomalyDetector.detect_pattern_anomalies: the list of anomalies
detect_pattern_anomalies(cfg, base, current_logs, clk) ==
    IF ReturnsEarly(base) THEN <<>>
    ELSE ErrorRateAnomaly(cfg, base, current_logs, clk) \o RepeatAnomalies(current_logs, clk)

(***************************************************************************)
(* AnomalyDetector.analyze_logs, update_anomaly_config                     *)
(***************************************************************************)
RunsMethodAlways(cfg, method) == TRUE

\* "if <method> in self.config.detection_methods"
RunsMethod(cfg, method) == method \in Range(cfg.detection_methods)

\* "if not self.config.enabled: return all_anomalies"
Disabled(cfg) == ~cfg.enabled

analyze_logs(cfg, base, current_logs, clk) ==
    IF Disabled(cfg) THEN <<>>
    ELSE (IF RunsMethod(cfg, "volume")
          THEN detect_volume_anomalies(cfg, base, current_logs, clk) ELSE <<>>)
         \o (IF RunsMethod(cfg, "pattern")
             THEN detect_pattern_anomalies(cfg, base, current_logs, clk) ELSE <<>>)

KeptBaseline(old) == old

\* detector = AnomalyDetector(config): the baseline_data of the new detector
NewDetectorBaseline(old) == EmptyBaseline

(***************************************************************************)
(* Bounds of the model                                                     *)
(***************************************************************************)
MaxLogs == 3          \* records in a request's batch
MaxCoreLogs == 4      \* records in a batch drawn from a spec's core pool
MaxChainArg == 3      \* largest max_chain_length tried besides the default
MaxTicks == 1         \* clock advances in a behaviour
StartClock == ChainWindow + 50     \* datetime.now() when the behaviour starts

DefaultMaxChainLength == 10

NoCall == [op |-> "none"]
NoResult == [status |-> "none"]

RECURSIVE SeqsUpTo(_, _)
\* the sequences over S of length at most n
SeqsUpTo(S, n) ==
    IF n = 0 THEN {<<>>}
    ELSE LET shorter == SeqsUpTo(S, n - 1) IN
         shorter \cup {Append(q, x) : q \in {r \in shorter : Len(r) = n - 1}, x \in S}

\* datetime.now() advances between calls
Tick ==
    /\ now < StartClock + MaxTicks
    /\ now' = now + 1
    /\ UNCHANGED <<logs, call, result, prev, detectorVars>>

(***************************************************************************)
(* Specification of the detect-chains endpoint                             *)
(***************************************************************************)
NoMsg == <<>>

\* the wide pool: records that differ in level, service, identifiers, message
\* and timestamp format
ChainPool ==
    { Log(Naive(0), "ERROR", "api", NoMsg, Absent, Absent, Absent, Absent),
      Log(Naive(100), "ERROR", "api", NoMsg, Absent, Absent, Absent, Absent),
      Log(Naive(0), "error", "web", NoMsg, "", Absent, Absent, Absent),
      Log(Naive(100), "WARNING", "db", NoMsg, "", Absent, Absent, Absent),
      Log(Naive(100), "ERROR", "cache", NoMsg, Absent, None, Absent, Absent),
      Log(Naive(0), "FATAL", "queue", NoMsg, Absent, None, "s9", Absent),
      Log(Naive(100), "ERROR", "mail",
          <<KeyWord("request_id", "=", "r1"), Word("failed")>>,
          Absent, Absent, "s9", Absent),
      Log(Naive(0), "ERROR", "cron", NoMsg, "r1", Absent, Absent, Absent),
      Log(Naive(100), "INFO", "api", NoMsg, Absent, Absent, Absent, Absent),
      Log(Aware(100), "ERROR", "api", NoMsg, Absent, Absent, Absent, Absent),
      Log(BadTs, "ERROR", Absent, NoMsg, Absent, Absent, Absent, Absent) }

\* the core pool, for longer batches
ChainCore ==
    { Log(Naive(0), "ERROR", "api", NoMsg, Absent, Absent, Absent, Absent),
      Log(Naive(100), "ERROR", "api", NoMsg, Absent, Absent, Absent, Absent),
      Log(Naive(700), "ERROR", "api", NoMsg, Absent, Absent, Absent, Absent),
      Log(Naive(600), "CRITICAL", "db", NoMsg, Absent, Absent, Absent, Absent),
      Log(Naive(100), "WARNING", "db", NoMsg, "", Absent, Absent, Absent) }

ChainArgs == (-1..MaxChainArg) \cup {DefaultMaxChainLength}

InitChains ==
    /\ logs \in SeqsUpTo(ChainPool, MaxLogs) \cup SeqsUpTo(ChainCore, MaxCoreLogs)
    /\ now = StartClock
    /\ call = NoCall
    /\ result = NoResult
    /\ prev = NoResult
    /\ tasks = NoTasks
    /\ detected_anomalies = NoAnomalies
    /\ hist = <<>>
    /\ config = DefaultConfig
    /\ baseline = EmptyBaseline

DetectChains ==
    \E max_chain_length \in ChainArgs :
        /\ call' = [op |-> "detect_error_chains", max_chain_length |-> max_chain_length,
                    clock |-> now]
        /\ result' = detect_error_chains(logs, max_chain_length, now)
        /\ UNCHANGED <<logs, now, prev, detectorVars>>

\* the clock stays at StartClock here: a chain depends on datetime.now() only
\* through records with an unparseable timestamp, which all parse to it
NextChains == DetectChains

SpecChains == InitChains /\ [][NextChains]_vars

(***************************************************************************)
(* Properties of detect_error_chains                                       *)
(***************************************************************************)
ChainsReturned == call.op = "detect_error_chains" /\ result.status = "ok"

\* parsed instant of the record at position x of the batch, as the call saw it
ChainTime(x) == parse_timestamp(GetTs(logs[x]), call.clock).t

\* C1: in the result of one detect_error_chains call the member sets of the
\* emitted chains are pairwise disjoint: no record (by identity) is a member
\* of two different chains.
C1_ChainsDisjoint ==
    ChainsReturned =>
        \A a, b \in 1..Len(result.chains) :
            a # b => Range(result.chains[a].logs) \cap Range(result.chains[b].logs) = {}

\* two chains were emitted, and a record consumed by the first lay inside the
\* forward scan of the second
C1_Witness ==
    /\ ChainsReturned
    /\ \E a, b \in 1..Len(result.chains) :
          /\ result.chains[a].start < result.chains[b].start
          /\ \E k \in 1..Len(result.chains[a].logs) :
                \E j \in (result.chains[b].start + 1)..(result.chains[b].stop - 1) :
                    SortedErrors(logs, call.clock)[j] = result.chains[a].logs[k]

\* C2 (as claimed): a candidate joins a chain only if it has the service of
\* the chain's start record, or both carry the same value for one of
\* request_id, user_id, session_id, non-null and non-empty on both sides.
C2_LinkedByServiceOrNonEmptyId ==
    ChainsReturned =>
        \A c \in 1..Len(result.chains) :
            \A k \in 2..Len(result.chains[c].logs) :
                LET start_log == logs[result.chains[c].logs[1]]
                    candidate_log == logs[result.chains[c].logs[k]]
                    cd == extract_correlation_fields(candidate_log, ChainFields)
                    sd == extract_correlation_fields(start_log, ChainFields)
                IN  \/ Get(candidate_log, "service", "") = Get(start_log, "service", "")
                    \/ \E f \in DOMAIN cd \cap DOMAIN sd :
                          /\ cd[f] = sd[f]
                          /\ cd[f] \notin {None, ""}
                          /\ sd[f] \notin {None, ""}

\* members of chains started before chain c (consumed when c's scan runs)
ConsumedBefore(c) ==
    UNION {Range(result.chains[a].logs) :
              a \in {b \in 1..Len(result.chains) : result.chains[b].start < c.start}}

\* the positions of sorted_errors after c's start holding a candidate that
\* is unconsumed and more than 600 seconds after the start
LatePositions(c) ==
    LET S == SortedErrors(logs, call.clock) IN
    {j \in (c.start + 1)..Len(S) :
        /\ S[j] \notin ConsumedBefore(c)
        /\ ChainTime(S[j]) - ChainTime(S[c.start]) > 600}

ApiError(t) == Log(Naive(t), "ERROR", "api", NoMsg, Absent, Absent, Absent, Absent)

\* C3: every chain member is at most 600 seconds after the chain's start
\* record, members are in non-decreasing timestamp order, and the forward scan
\* of a start goes no further than the first unconsumed candidate more than
\* 600 seconds after it; three ERROR logs of one service at 0, 100 and 700
\* seconds give exactly one chain, of length 2.
C3_ChainWindowAndScanStop ==
    ChainsReturned =>
        /\ \A c \in 1..Len(result.chains) :
              LET ch == result.chains[c] IN
              /\ \A k \in 1..Len(ch.logs) :
                    /\ ChainTime(ch.logs[k]) - ChainTime(ch.logs[1]) <= 600
                    /\ k > 1 => ChainTime(ch.logs[k - 1]) <= ChainTime(ch.logs[k])
              /\ \A j \in LatePositions(ch) : ch.stop <= j
        /\ (/\ Len(logs) = 3
            /\ Range(logs) = {ApiError(0), ApiError(100), ApiError(700)}
            /\ call.max_chain_length >= 2)
           => /\ Len(result.chains) = 1
              /\ result.chains[1].length = 2
              /\ logs[result.chains[1].logs[1]] = ApiError(0)
              /\ logs[result.chains[1].logs[2]] = ApiError(100)

\* the scenario ran: the scan of the chain's start broke at the record 700
\* seconds after it, with room left in the chain
C3_Witness ==
    /\ ChainsReturned
    /\ Len(logs) = 3
    /\ Range(logs) = {ApiError(0), ApiError(100), ApiError(700)}
    /\ call.max_chain_length = DefaultMaxChainLength
    /\ Len(result.chains) = 1
    /\ result.chains[1].stop = 3
    /\ result.chains[1].stop \in LatePositions(result.chains[1])

\* C4: every emitted chain has between 2 and max_chain_length members, and
\* its reported length is the number of records in its logs.
C4_ChainLength ==
    ChainsReturned =>
        \A c \in 1..Len(result.chains) :
            /\ result.chains[c].length >= 2
            /\ result.chains[c].length <= call.max_chain_length
            /\ result.chains[c].length = Len(result.chains[c].logs)

\* a chain was cut at max_chain_length although the next candidate of the
\* scan was unconsumed, within the window and related to the start
C4_Witness ==
    /\ ChainsReturned
    /\ \E c \in 1..Len(result.chains) :
          LET ch == result.chains[c]
              S == SortedErrors(logs, call.clock)
          IN  /\ ch.length = call.max_chain_length
              /\ ch.stop <= Len(S)
              /\ S[ch.stop] \notin ConsumedBefore(ch) \cup Range(ch.logs)
              /\ ChainTime(S[ch.stop]) - ChainTime(S[ch.start]) <= 600
              /\ IsRelated(logs[S[ch.stop]], logs[S[ch.start]])

(***************************************************************************)
(* Specification of the detector's volume check                            *)
(***************************************************************************)
MaxPerHour == 2       \* records per hour of day in a historical batch
MaxVolume == 8        \* records in the batch checked for volume

HistHours == <<0, 1, 2, 3, 23>>

\* the counts per hour of the scenario baseline [10, 10, 10, 10, 10]
ScenarioCount == 10
ScenarioVolume == 20

HistLog(hour) ==
    Log(Naive(3600 * hour), IF hour = 0 THEN "ERROR" ELSE "INFO", "api", NoMsg,
        Absent, Absent, Absent, Absent)

CurrentLog == Log(Naive(0), "INFO", "api", NoMsg, Absent, Absent, Absent, Absent)

\* a historical batch with cnt[k] records in hour HistHours[k]
RECURSIVE HistBatch(_, _)
HistBatch(cnt, k) ==
    IF k = 0 THEN <<>>
    ELSE HistBatch(cnt, k - 1) \o Repeat(HistLog(HistHours[k]), cnt[k])

HistBatches ==
    {HistBatch(cnt, Len(HistHours)) :
        cnt \in [1..Len(HistHours) -> 0..MaxPerHour]
                \cup {[k \in 1..Len(HistHours) |-> ScenarioCount]}}

VolumeBatches == {Repeat(CurrentLog, n) : n \in (0..MaxVolume) \cup {ScenarioVolume}}

VolumeConfigs ==
    {[DefaultConfig EXCEPT !.sensitivity = s, !.min_samples = m] :
        s \in {0, 5, 8, 10}, m \in {0, 5, 10}}

InitVolume ==
    /\ logs \in VolumeBatches
    /\ hist \in HistBatches
    /\ config \in VolumeConfigs
    /\ baseline = EmptyBaseline
    /\ now = StartClock
    /\ call = NoCall
    /\ result = NoResult
    /\ prev = NoResult
    /\ tasks = NoTasks
    /\ detected_anomalies = NoAnomalies

\* detector.update_baseline(historical_logs)
UpdateBaseline ==
    /\ call' = [op |-> "update_baseline"]
    /\ baseline' = update_baseline(baseline, hist)
    /\ result' = NoResult
    /\ prev' = NoResult
    /\ UNCHANGED <<logs, now, hist, config, tasks, detected_anomalies>>

\* detector.detect_volume_anomalies(current_logs)
DetectVolume ==
    /\ call' = [op |-> "detect_volume_anomalies"]
    /\ result' = [status |-> "ok",
                  anomalies |-> detect_volume_anomalies(config, baseline, logs, now)]
    /\ UNCHANGED <<logs, now, prev, detectorVars>>

NextVolume == UpdateBaseline \/ DetectVolume

SpecVolume == InitVolume /\ [][NextVolume]_vars

\* C5: when the batch has at least min_samples records and the baseline at
\* least 5 hourly-volume samples, detect_volume_anomalies emits at most one
\* anomaly, and its confidence is in [0, 0.95].
C5_AtMostOneVolumeAnomaly ==
    (/\ call.op = "detect_volume_anomalies"
     /\ Len(logs) >= config.min_samples
     /\ Len(baseline.hourly_volume) >= 5)
    => /\ Len(result.anomalies) <= 1
       /\ \A k \in 1..Len(result.anomalies) :
             /\ result.anomalies[k].confidence >= 0
             /\ result.anomalies[k].confidence <= 950

\* a high-volume anomaly whose ratio (current - threshold) / threshold is
\* above 0.95 was emitted, with the confidence cut to the cap
C5_Witness ==
    /\ call.op = "detect_volume_anomalies"
    /\ Len(logs) >= config.min_samples
    /\ Len(baseline.hourly_volume) >= 5
    /\ Len(result.anomalies) = 1
    /\ result.anomalies[1].id[1] = "volume_high"
    /\ result.anomalies[1].confidence = 950
    /\ 1000 * Len(baseline.hourly_volume) * Len(logs)
           > 2 * HighScaled(baseline.hourly_volume, config.sensitivity)

(***************************************************************************)
(* Specification of find_temporal_correlations                             *)
(***************************************************************************)
MaxRepeat == 11       \* records in a batch of copies of one record

DefaultTimeWindow == 300

TemporalPool ==
    { Log(Naive(0), "INFO", "api", NoMsg, Absent, Absent, Absent, Absent),
      Log(Naive(100), "ERROR", "db", NoMsg, Absent, Absent, Absent, Absent),
      Log(Naive(700), "INFO", "api", NoMsg, Absent, Absent, Absent, Absent),
      Log(Aware(100), "INFO", "api", NoMsg, Absent, Absent, Absent, Absent),
      Log(Aware(700), "INFO", "db", NoMsg, Absent, Absent, Absent, Absent),
      Log(BadTs, "INFO", Absent, NoMsg, Absent, Absent, Absent, Absent) }

TimeWindows == {-1, 0, 100, DefaultTimeWindow}

InitTemporal ==
    /\ logs \in SeqsUpTo(TemporalPool, MaxLogs)
    /\ now = StartClock
    /\ call = NoCall
    /\ result = NoResult
    /\ prev = NoResult
    /\ tasks = NoTasks
    /\ detected_anomalies = NoAnomalies
    /\ hist = <<>>
    /\ config = DefaultConfig
    /\ baseline = EmptyBaseline

\* correlator.find_temporal_correlations(logs, time_window); prev keeps the
\* return value of the call before when it had the same arguments
FindTemporal ==
    \E time_window \in TimeWindows :
        /\ call' = [op |-> "find_temporal_correlations", time_window |-> time_window,
                    clock |-> now]
        /\ result' = find_temporal_correlations(logs, time_window, now)
        /\ prev' = IF call.op = "find_temporal_correlations"
                      /\ call.time_window = time_window
                   THEN [status |-> "returned", clock |-> call.clock, value |-> result]
                   ELSE NoResult
        /\ UNCHANGED <<logs, now, detectorVars>>

NextTemporal == FindTemporal \/ Tick

SpecTemporal == InitTemporal /\ [][NextTemporal]_vars

(***************************************************************************)
(* Specification of the field-based and pattern-based correlations         *)
(***************************************************************************)
TimeoutMsg == <<Word("Timeout"), Word("calling"), Word("db")>>

GroupPool ==
    { Log(Naive(0), "INFO", "db", TimeoutMsg, Absent, Absent, Absent, Absent),
      Log(Naive(100), "INFO", "db", <<Word("timeout"), Word("Calling"), Word("db"), Word("now")>>,
          Absent, "", Absent, Absent),
      Log(Naive(100), "ERROR", "api", <<KeyWord("request_id", "=", "r1"), Word("failed")>>,
          Absent, Absent, Absent, Absent),
      Log(Naive(0), "INFO", "web", NoMsg, "r1", None, Absent, Absent),
      Log(Aware(100), "INFO", "db", TimeoutMsg, Absent, Absent, Absent, Absent),
      Log(BadTs, "INFO", "db", TimeoutMsg, Absent, "u1", Absent, Absent),
      Log(Naive(700), "INFO", Absent,
          <<KeyWord("user_id", "", ""), Word("u1"), Word("denied")>>,
          Absent, Absent, Absent, Absent) }

GroupCore ==
    { Log(Naive(0), "INFO", "db", TimeoutMsg, Absent, Absent, Absent, Absent),
      Log(Naive(100), "INFO", "db", TimeoutMsg, Absent, Absent, Absent, Absent) }

DefaultFields == <<"service", "user_id", "session_id", "trace_id", "request_id">>

FieldLists == {<<"service">>, <<"request_id", "user_id">>, DefaultFields}

InitGroups ==
    /\ logs \in SeqsUpTo(GroupPool, MaxLogs)
                \cup {Repeat(x, n) : x \in GroupCore, n \in 0..MaxRepeat}
    /\ now = StartClock
    /\ call = NoCall
    /\ result = NoResult
    /\ prev = NoResult
    /\ tasks = NoTasks
    /\ detected_anomalies = NoAnomalies
    /\ hist = <<>>
    /\ config = DefaultConfig
    /\ baseline = EmptyBaseline

\* correlator.find_field_based_correlations(logs, correlation_fields)
FindFieldBased ==
    \E fields \in FieldLists :
        /\ call' = [op |-> "find_field_based_correlations", correlation_fields |-> fields,
                    clock |-> now]
        /\ result' = find_field_based_correlations(logs, fields, now)
        /\ UNCHANGED <<logs, now, prev, detectorVars>>

\* correlator.find_pattern_correlations(logs)
FindPattern ==
    /\ call' = [op |-> "find_pattern_correlations", clock |-> now]
    /\ result' = find_pattern_correlations(logs, now)
    /\ UNCHANGED <<logs, now, prev, detectorVars>>

\* find_temporal_correlations as the /analyze endpoint calls it beside the two
FindTemporalWindow ==
    \E time_window \in TimeWindows :
        /\ call' = [op |-> "find_temporal_correlations", time_window |-> time_window,
                    clock |-> now]
        /\ result' = find_temporal_correlations(logs, time_window, now)
        /\ UNCHANGED <<logs, now, prev, detectorVars>>

NextGroups == FindFieldBased \/ FindPattern \/ FindTemporalWindow

SpecGroups == InitGroups /\ [][NextGroups]_vars

(***************************************************************************)
(* Specification of trace_service_flows                                    *)
(***************************************************************************)
FlowPool ==
    { Log(Naive(0), "INFO", "api", NoMsg, "abc", Absent, Absent, Absent),
      Log(Naive(10), "ERROR", "db", NoMsg, "abc", Absent, Absent, Absent),
      Log(Naive(10), "WARN", "api", NoMsg, Absent, Absent, "s1", "abc"),
      Log(Naive(0), "INFO", "web", NoMsg, "abc", Absent, Absent, "abc"),
      Log(Aware(10), "INFO", "db", NoMsg, Absent, Absent, "s1", Absent),
      Log(BadTs, "INFO", "cache", NoMsg, "", Absent, "s1", None),
      Log(Naive(5), "CRITICAL", Absent, <<KeyWord("request_id", "=", "abc"), Word("failed")>>,
          Absent, Absent, Absent, Absent) }

InitFlows ==
    /\ logs \in SeqsUpTo(FlowPool, MaxLogs)
    /\ now = StartClock
    /\ call = NoCall
    /\ result = NoResult
    /\ prev = NoResult
    /\ tasks = NoTasks
    /\ detected_anomalies = NoAnomalies
    /\ hist = <<>>
    /\ config = DefaultConfig
    /\ baseline = EmptyBaseline

\* correlator.trace_service_flows(logs)
TraceFlows ==
    /\ call' = [op |-> "trace_service_flows", clock |-> now]
    /\ result' = trace_service_flows(logs, now)
    /\ UNCHANGED <<logs, now, prev, detectorVars>>

NextFlows == TraceFlows \/ Tick

SpecFlows == InitFlows /\ [][NextFlows]_vars

(***************************************************************************)
(* Claims about the correlation groups                                     *)
(***************************************************************************)
GroupOps ==
    {"find_temporal_correlations", "find_field_based_correlations",
     "find_pattern_correlations"}

GroupsReturned == IF call.op \in GroupOps THEN Range(result.groups) ELSE {}

GroupSize(g) == 1 + Len(g.related_logs)

\* C6: every group emitted by find_temporal_correlations,
\* find_field_based_correlations and find_pattern_correlations has a
\* correlation_strength in [0, 1] (0..1000 thousandths), for every batch and
\* every time_window.
C6_StrengthInUnitInterval ==
    \A g \in GroupsReturned :
        g.correlation_strength >= 0 /\ g.correlation_strength <= 1000

\* C6 witness: a field-based group of more than ten records, where the cap of
\* the strength acts, and the strength is 1
C6_Witness ==
    /\ call.op = "find_field_based_correlations"
    /\ \E g \in GroupsReturned :
           GroupSize(g) > 10 /\ g.correlation_strength = 1000

\* C7: no correlation group has an empty related_logs; a field-based group has
\* at least 2 members in total (primary and related) and a pattern-based group
\* at least 3.
C7_GroupsHaveRelatedLogs ==
    \A g \in GroupsReturned :
        /\ g.related_logs # <<>>
        /\ g.correlation_type = "field_based" => GroupSize(g) >= 2
        /\ g.correlation_type = "pattern_based" => GroupSize(g) >= 3

\* C7 witness: a pattern-based group of exactly three records is returned
C7_Witness ==
    /\ call.op = "find_pattern_correlations"
    /\ \E g \in GroupsReturned :
           g.correlation_type = "pattern_based" /\ GroupSize(g) = 3

AllParse == \A i \in 1..Len(logs) : GetTs(logs[i]).kind # "bad"

\* C8 as claimed: a second call of find_temporal_correlations on the same
\* batch with the same time_window returns the groups of the first call, in
\* the same order, whatever the timestamps of the batch.
C8_RepeatedCallSameGroups ==
    prev.status = "returned" => result = prev.value

\* C8 as amended: a second call of find_temporal_correlations on the same
\* batch with the same time_window returns the groups of the first call, in
\* the same order, when every timestamp of the batch parses.
C8_RepeatedCallSameGroupsWhenAllParse ==
    (prev.status = "returned" /\ AllParse) => result = prev.value

\* C8 witness: the second call, later than the first one, on a batch of
\* parseable timestamps returns groups
C8_Witness ==
    /\ prev.status = "returned"
    /\ AllParse
    /\ call.clock > prev.clock
    /\ result.status = "ok"
    /\ result.groups # <<>>

Instant(i) == parse_timestamp(GetTs(logs[i]), call.clock).t

Count(S) == Cardinality(S)

\* C9: trace_service_flows emits exactly one flow per identifier value whose
\* bucket has at least 2 members (and none for another value); the timeline of
\* a flow is in non-decreasing timestamp order, total_duration is the last
\* minus the first timestamp and so >= 0, and services lists the distinct
\* services in first-seen order of the timeline; two logs with request_id
\* "abc" 10 seconds apart and of different services give one flow of
\* total_duration 10 with both services.
C9_OneFlowPerBucket ==
    call.op = "trace_service_flows" =>
        LET entries == Flatten([i \in 1..Len(logs) |-> FlowEntries(logs, i)], Len(logs))
            keys == Range(BucketKeys(entries))
            flows == result.flows
        IN  /\ \A key \in keys :
                   Count({k \in 1..Len(flows) : flows[k].request_id = key})
                       = IF Len(BucketMembers(entries, key)) >= 2 THEN 1 ELSE 0
            /\ \A k \in 1..Len(flows) :
                   LET f == flows[k]
                       n == Len(f.timeline)
                   IN  /\ f.request_id \in keys
                       /\ \A a, b \in 1..n :
                              a < b => Instant(f.timeline[a].log) <= Instant(f.timeline[b].log)
                       /\ f.total_duration
                              = Instant(f.timeline[n].log) - Instant(f.timeline[1].log)
                       /\ f.total_duration >= 0
                       /\ f.services = Dedup([a \in 1..n |-> f.timeline[a].service])
            /\ (/\ Len(logs) = 2
                /\ \A i \in 1..2 : logs[i].request_id = "abc" /\ logs[i].trace_id = Absent
                                       /\ logs[i].session_id = Absent
                /\ logs[1].timestamp = Naive(0) /\ logs[2].timestamp = Naive(10)
                /\ logs[1].service = "api" /\ logs[2].service = "db")
               => /\ Len(flows) = 1
                  /\ flows[1].total_duration = 10
                  /\ flows[1].services = <<"api", "db">>

\* C10: find_field_based_correlations emits exactly one group for each
\* field:value bucket with at least 2 members and none for a smaller bucket;
\* the primary of the group is the first record of the bucket in input order,
\* related_logs are the others in input order, and correlation_strength is
\* min(1.0, bucket_size/10); 3 logs with service "db" and correlation_fields
\* ["service"] give one group of strength 0.3.
C10_OneGroupPerBucket ==
    call.op = "find_field_based_correlations" =>
        LET fields == call.correlation_fields
            entries == Flatten([i \in 1..Len(logs) |-> FieldEntries(logs, i, fields)],
                               Len(logs))
            keys == Range(BucketKeys(entries))
            groups == result.groups
            KeyOf(g) == FieldKey(g.correlation_fields.field, g.correlation_fields.value)
        IN  /\ \A key \in keys :
                   Count({k \in 1..Len(groups) : KeyOf(groups[k]) = key})
                       = IF Len(BucketMembers(entries, key)) >= 2 THEN 1 ELSE 0
            /\ \A k \in 1..Len(groups) :
                   LET g == groups[k]
                       members == <<g.primary_log>> \o g.related_logs
                   IN  /\ KeyOf(g) \in keys
                       /\ members = BucketMembers(entries, KeyOf(g))
                       /\ \A a, b \in 1..Len(members) : a < b => members[a] <= members[b]
                       /\ g.correlation_strength = Min(1000, 100 * Len(members))
            /\ (/\ Len(logs) = 3
                /\ \A i \in 1..3 : logs[i].service = "db"
                /\ fields = <<"service">>)
               => /\ Len(groups) = 1
                  /\ groups[1].correlation_strength = 300

(***************************************************************************)
(* Specification of find_related_logs                                      *)
(***************************************************************************)
MaxCandidates == 21   \* records in a batch of copies of one candidate

RelatedPrimaries ==
    { Log(Naive(100), "INFO", "api", NoMsg, "r1", "u1", Absent, Absent),
      Log(BadTs, "INFO", "api", NoMsg, Absent, None, Absent, Absent),
      Log(Aware(100), "INFO", "db", NoMsg, Absent, Absent, Absent, Absent),
      Log(Naive(100), "INFO", "", NoMsg, Absent, Absent, Absent, Absent) }

RelatedPool ==
    { Log(Naive(100), "INFO", "api", NoMsg, "r1", "u1", Absent, Absent),
      Log(Naive(0), "ERROR", "api", NoMsg, Absent, "u2", Absent, Absent),
      Log(Naive(400), "INFO", "db", NoMsg, Absent, "u1", Absent, Absent),
      Log(Naive(700), "INFO", "db", NoMsg, Absent, Absent, Absent, Absent),
      Log(Aware(100), "INFO", "api", NoMsg, Absent, "u1", Absent, Absent),
      Log(BadTs, "INFO", Absent, <<KeyWord("user_id", "", ""), Word("u1"), Word("denied")>>,
          Absent, Absent, Absent, Absent),
      Log(Naive(100), "INFO", Absent, NoMsg, Absent, Absent, Absent, Absent),
      Log(Naive(700), "INFO", "", NoMsg, Absent, Absent, Absent, Absent) }

RelatedCore ==
    { Log(Naive(100), "INFO", "api", NoMsg, "r1", "u1", Absent, Absent),
      Log(Naive(0), "INFO", "api", NoMsg, Absent, "u1", Absent, Absent) }

DefaultRelatedFields == <<"service", "user_id", "request_id">>

RelatedFieldLists == {DefaultRelatedFields, <<"service">>, <<>>}

InitRelated ==
    /\ logs \in SeqsUpTo(RelatedPool, MaxLogs)
                \cup {Repeat(x, n) : x \in RelatedCore, n \in 0..MaxCandidates}
    /\ now = StartClock
    /\ call = NoCall
    /\ result = NoResult
    /\ prev = NoResult
    /\ tasks = NoTasks
    /\ detected_anomalies = NoAnomalies
    /\ hist = <<>>
    /\ config = DefaultConfig
    /\ baseline = EmptyBaseline

\* POST /find-related with candidate_logs = logs
FindRelated ==
    \E primary_log \in RelatedPrimaries, fields \in RelatedFieldLists,
       time_window \in TimeWindows :
        /\ call' = [op |-> "find_related_logs", primary_log |-> primary_log,
                    correlation_fields |-> fields, time_window |-> time_window,
                    clock |-> now]
        /\ result' = find_related_logs(primary_log, logs, fields, time_window, now)
        /\ UNCHANGED <<logs, now, prev, detectorVars>>

NextRelated == FindRelated

SpecRelated == InitRelated /\ [][NextRelated]_vars

\* the score the claim gives candidate i, as the fraction ClaimedNum / ClaimedDen
ClaimedCompared(i) ==
    LET pdata == extract_correlation_fields(call.primary_log, call.correlation_fields)
        cdata == extract_correlation_fields(logs[i], call.correlation_fields)
    IN  {f \in Range(call.correlation_fields) : f \in DOMAIN pdata /\ f \in DOMAIN cdata}

ClaimedMatching(i) ==
    LET pdata == extract_correlation_fields(call.primary_log, call.correlation_fields)
        cdata == extract_correlation_fields(logs[i], call.correlation_fields)
    IN  {f \in ClaimedCompared(i) : pdata[f] = cdata[f]}

ClaimedTimeDiff(i) ==
    Abs(parse_timestamp(GetTs(logs[i]), call.clock).t
        - parse_timestamp(GetTs(call.primary_log), call.clock).t)

\* time_diff is exactly 0: equal parsed instants, not two readings of the clock
ClaimedSameInstant(i) ==
    ClaimedTimeDiff(i) = 0
    /\ ~(GetTs(logs[i]).kind = "bad" /\ GetTs(call.primary_log).kind = "bad")

ClaimedInWindow(i) ==
    IF ClaimedSameInstant(i) \/ ClaimedTimeDiff(i) > 0
    THEN ClaimedTimeDiff(i) <= call.time_window
    ELSE ClaimedTimeDiff(i) < call.time_window

ClaimedDen(i) ==
    10 * (IF call.time_window > 0 THEN call.time_window ELSE 1)
       * (IF ClaimedCompared(i) = {} THEN 1 ELSE Cardinality(ClaimedCompared(i)))

ClaimedNum(i) ==
    LET n == IF ClaimedCompared(i) = {} THEN 1 ELSE Cardinality(ClaimedCompared(i))
        w == IF call.time_window > 0 THEN call.time_window ELSE 1
    IN  (IF ClaimedInWindow(i) THEN 3 * (call.time_window - ClaimedTimeDiff(i)) * n ELSE 0)
        + 7 * Cardinality(ClaimedMatching(i)) * w

ClaimedKept == {i \in 1..Len(logs) : 10 * ClaimedNum(i) > 2 * ClaimedDen(i)}

\* C11: find_related_logs (time_window not 0) scores each candidate as
\* 0.3*(1 - time_diff/time_window) if time_diff <= time_window, else 0, plus
\* 0.7*(matching_fields/compared_fields), 0 when no field is compared; it
\* returns exactly the candidates with score > 0.2, in non-increasing score
\* order, at most 20 of them (the 20 best when there are more); a candidate
\* with time_diff 0 that matches the primary on every compared field (at
\* least one) scores 1.0 and is included or 20 candidates are returned.
C11_RelatedScoredFilteredSorted ==
    (call.op = "find_related_logs" /\ call.time_window # 0) =>
        LET rel == result.related_logs
            returned == {rel[k].log : k \in 1..Len(rel)}
        IN  /\ result.status = "ok"
            /\ \A k \in 1..Len(rel) :
                   /\ rel[k].correlation_score * ClaimedDen(rel[k].log)
                          = ClaimedNum(rel[k].log) * result.score_den
                   /\ rel[k].log \in ClaimedKept
            /\ \A a, b \in 1..Len(rel) :
                   a < b => /\ rel[a].correlation_score >= rel[b].correlation_score
                            /\ rel[a].log # rel[b].log
            /\ Len(rel) = Min(RelatedLimit, Cardinality(ClaimedKept))
            /\ \A i \in ClaimedKept \ returned, k \in 1..Len(rel) :
                   ClaimedNum(i) * result.score_den
                       <= rel[k].correlation_score * ClaimedDen(i)
            /\ \A i \in 1..Len(logs) :
                   (/\ ClaimedSameInstant(i)
                    /\ call.time_window > 0
                    /\ ClaimedCompared(i) # {}
                    /\ ClaimedMatching(i) = ClaimedCompared(i))
                   => /\ ClaimedNum(i) = ClaimedDen(i)
                      /\ i \in returned \/ Len(rel) = RelatedLimit

(***************************************************************************)
(* Specification of a sequence of update_baseline calls                    *)
(***************************************************************************)
MaxBatch == 3         \* records in a batch handed to update_baseline

BaselinePool ==
    { Log(Naive(0), "ERROR", "api", NoMsg, Absent, Absent, Absent, Absent),
      Log(Naive(3600), "INFO", "api", <<Word("GET"), KeyWord("response_time", ":", "45")>>,
          Absent, Absent, Absent, Absent),
      Log(Naive(90000), "Critical", "db",
          <<KeyWord("response_time", "", ""), Word("120ms")>>,
          Absent, Absent, Absent, Absent),
      Log(Aware(7200), Absent, "db", <<KeyWord("response_time", "=", "45")>>,
          Absent, Absent, Absent, Absent),
      Log(BadTs, "FATAL", "api", <<KeyWord("response_time", ":", "45")>>,
          Absent, Absent, Absent, Absent) }

DayRecords == 26      \* records of the batch with one record per successive hour

\* one record per hour over more than a day
HourlyBatch ==
    [k \in 1..DayRecords |->
        Log(Naive(3600 * (k - 1)), "INFO", "api", NoMsg, Absent, Absent, Absent, Absent)]

BaselineBatches == SeqsUpTo(BaselinePool, MaxBatch) \cup {HourlyBatch}

InitBaseline ==
    /\ logs = <<>>
    /\ hist = <<>>
    /\ config = DefaultConfig
    /\ baseline = EmptyBaseline
    /\ now = StartClock
    /\ call = NoCall
    /\ result = NoResult
    /\ prev = NoResult
    /\ tasks = NoTasks
    /\ detected_anomalies = NoAnomalies

\* detector.update_baseline(batch); prev keeps the last non-empty batch
UpdateBaselineBatch ==
    \E batch \in BaselineBatches :
        /\ call' = [op |-> "update_baseline"]
        /\ hist' = batch
        /\ baseline' = update_baseline(baseline, batch)
        /\ prev' = IF batch # <<>> THEN [status |-> "batch", value |-> batch] ELSE prev
        /\ result' = NoResult
        /\ UNCHANGED <<logs, now, config, tasks, detected_anomalies>>

NextBaseline == UpdateBaselineBatch

SpecBaseline == InitBaseline /\ [][NextBaseline]_vars

\* C12: after any sequence of update_baseline calls the three baseline series
\* are what the last non-empty batch alone produces on a fresh detector, and
\* the empty baseline when every batch was empty: a non-empty batch replaces
\* all three series, an empty batch leaves them unchanged, nothing accumulates.
C12_BaselineOfLastNonEmptyBatch ==
    baseline = IF prev.status = "batch"
               THEN update_baseline(EmptyBaseline, prev.value)
               ELSE EmptyBaseline

\* C12 witness: a non-empty batch that fills all three series was followed by
\* a call with an empty batch
C12_Witness ==
    /\ call.op = "update_baseline"
    /\ hist = <<>>
    /\ prev.status = "batch"
    /\ baseline.hourly_volume # <<>>
    /\ baseline.error_rate # <<>>
    /\ baseline.response_times # <<>>

(***************************************************************************)
(* Specification of the detector: configuration, baseline, detection       *)
(***************************************************************************)
MaxPatternCount == 6  \* copies of one message in a batch

RepeatedLog ==
    Log(Naive(0), "INFO", "api", <<Word("Timeout"), Word("calling"), Word("db"), Word("now")>>,
        Absent, Absent, Absent, Absent)

FailureLog ==
    Log(Naive(0), "ERROR", "db", <<Word("disk"), Word("failure"), Word("on"), Word("node")>>,
        Absent, Absent, Absent, Absent)

ThreeWordLog ==
    Log(Naive(0), "INFO", "api", TimeoutMsg, Absent, Absent, Absent, Absent)

RetryLog ==
    Log(Naive(0), "WARN", "api",
        <<Word("retry"), Word("timeout"), Word("calling"), Word("db"), Word("now")>>,
        Absent, Absent, Absent, Absent)

FillerLog ==
    Log(Naive(0), "INFO", "web", <<Word("ok")>>, Absent, Absent, Absent, Absent)

PatternBatches ==
    {Repeat(RetryLog, x) \o Repeat(ThreeWordLog, t) \o Repeat(RepeatedLog, a)
         \o Repeat(FailureLog, f) :
        x \in 0..1, t \in {0, 1, MaxPatternCount}, a \in 0..MaxPatternCount,
        f \in {0, 1, MaxPatternCount}}
    \cup {Repeat(FillerLog, 9 * MaxPatternCount) \o Repeat(RepeatedLog, MaxPatternCount)}
    \cup {Repeat(FailureLog, 2 * MaxPatternCount)}

\* historical batches: none, one record per hour (5 samples), two per hour
\* (10, two of them errors), and 10 records none of which is an error
DetectorHists ==
    {HistBatch([k \in 1..Len(HistHours) |-> n], Len(HistHours)) : n \in 0..2}
    \cup {HistBatch([k \in 1..Len(HistHours) |-> IF k = 1 THEN 0 ELSE IF k < 4 THEN 3 ELSE 2],
                    Len(HistHours))}

DetectorConfigs ==
    { DefaultConfig,
      [DefaultConfig EXCEPT !.enabled = FALSE],
      [DefaultConfig EXCEPT !.sensitivity = 10, !.min_samples = 0,
                            !.detection_methods = <<"pattern", "volume">>],
      [DefaultConfig EXCEPT !.sensitivity = 5, !.min_samples = 5,
                            !.detection_methods = <<"volume">>],
      [DefaultConfig EXCEPT !.min_samples = 0, !.detection_methods = <<"timing">>],
      [DefaultConfig EXCEPT !.sensitivity = 0, !.min_samples = 0,
                            !.detection_methods = <<"pattern">>] }

InitDetector ==
    /\ logs \in PatternBatches
    /\ hist \in DetectorHists
    /\ config = DefaultConfig
    /\ baseline = EmptyBaseline
    /\ now = StartClock
    /\ call = NoCall
    /\ result = NoResult
    /\ prev = NoResult
    /\ tasks = NoTasks
    /\ detected_anomalies = NoAnomalies

\* POST /config: a new detector replaces the old one; prev keeps the baseline
\* the old detector held
UpdateAnomalyConfig ==
    \E cfg \in DetectorConfigs :
        /\ call' = [op |-> "update_anomaly_config"]
        /\ config' = cfg
        /\ baseline' = NewDetectorBaseline(baseline)
        /\ prev' = [status |-> "reconfigured", discarded |-> baseline]
        /\ result' = NoResult
        /\ UNCHANGED <<logs, now, hist, tasks, detected_anomalies>>

\* detector.detect_pattern_anomalies(current_logs)
DetectPattern ==
    /\ call' = [op |-> "detect_pattern_anomalies", clock |-> now]
    /\ result' = [status |-> "ok",
                  anomalies |-> detect_pattern_anomalies(config, baseline, logs, now)]
    /\ UNCHANGED <<logs, now, prev, detectorVars>>

\* detector.analyze_logs(logs)
AnalyzeLogs ==
    /\ call' = [op |-> "analyze_logs", clock |-> now]
    /\ result' = [status |-> "ok", anomalies |-> analyze_logs(config, baseline, logs, now)]
    /\ UNCHANGED <<logs, now, prev, detectorVars>>

NextDetector ==
    UpdateAnomalyConfig \/ UpdateBaseline \/ DetectVolume \/ DetectPattern \/ AnalyzeLogs

SpecDetector == InitDetector /\ [][NextDetector]_vars

AnomaliesReturned == IF result.status = "ok" THEN result.anomalies ELSE <<>>

AnomalyKinds == [k \in 1..Len(AnomaliesReturned) |-> AnomaliesReturned[k].id[1]]

\* C13: after update_anomaly_config and until update_baseline is called on
\* the new detector, the baseline is empty, detect_volume_anomalies returns
\* empty and no error-rate anomaly is emitted, for any batch and whatever
\* baseline the previous detector held.
C13_ReconfiguredDetectorHasNoBaseline ==
    prev.status = "reconfigured" =>
        /\ baseline = EmptyBaseline
        /\ call.op = "detect_volume_anomalies" => result.anomalies = <<>>
        /\ call.op \in {"detect_pattern_anomalies", "analyze_logs"} =>
               \A k \in 1..Len(AnomaliesReturned) :
                   AnomalyKinds[k] \notin {"pattern_error", "volume_high", "volume_low"}

\* C13 witness: detect_volume_anomalies returns empty on a batch for which the
\* baseline of the replaced detector gives an anomaly under the new
\* configuration
C13_Witness ==
    /\ prev.status = "reconfigured"
    /\ call.op = "detect_volume_anomalies"
    /\ result.anomalies = <<>>
    /\ detect_volume_anomalies(config, prev.discarded, logs, now) # <<>>

\* C14: analyze_logs returns an empty list when config.enabled is false,
\* whatever the batch and the baseline; otherwise it returns the outputs of
\* exactly the methods listed in detection_methods, all volume anomalies
\* before all pattern anomalies, and a method name other than volume and
\* pattern contributes nothing.
C14_AnalyzeRunsListedMethods ==
    call.op = "analyze_logs" =>
        LET out == result.anomalies
            methods == Range(config.detection_methods)
            volume == SelectIdx(Len(out), [k \in 1..Len(out) |-> out[k].type = "volume"])
            pattern == SelectIdx(Len(out), [k \in 1..Len(out) |-> out[k].type = "pattern"])
        IN  /\ ~config.enabled => out = <<>>
            /\ config.enabled =>
                   /\ Len(volume) + Len(pattern) = Len(out)
                   /\ \A a \in Range(volume), b \in Range(pattern) : a < b
                   /\ [k \in 1..Len(volume) |-> out[volume[k]]]
                          = IF "volume" \in methods
                            THEN detect_volume_anomalies(config, baseline, logs, call.clock)
                            ELSE <<>>
                   /\ [k \in 1..Len(pattern) |-> out[pattern[k]]]
                          = IF "pattern" \in methods
                            THEN detect_pattern_anomalies(config, baseline, logs, call.clock)
                            ELSE <<>>

\* C14 witness: with detection_methods listing pattern before volume,
\* analyze_logs returns a volume anomaly followed by a pattern anomaly
C14_Witness ==
    /\ call.op = "analyze_logs"
    /\ config.enabled
    /\ config.detection_methods = <<"pattern", "volume">>
    /\ Len(result.anomalies) >= 2
    /\ result.anomalies[1].type = "volume"
    /\ result.anomalies[Len(result.anomalies)].type = "pattern"

\* C15: the repeated-message-pattern check of detect_pattern_anomalies does not
\* depend on the baseline size: with fewer than 10 error-rate samples in the
\* baseline (none included) it emits one anomaly for every message pattern
\* whose frequency exceeds 10% of the batch and whose count exceeds 5.
C15_RepeatCheckWithoutBaseline ==
    (call.op = "detect_pattern_anomalies" /\ Len(baseline.error_rate) < 10) =>
        \A p \in Range(MessagePatterns(logs)) :
            (10 * PatternCount(logs, p) > Len(logs) /\ PatternCount(logs, p) > 5)
            => Cardinality({k \in 1..Len(result.anomalies) :
                               result.anomalies[k].id = <<"pattern_repeat", call.clock, p>>}) = 1

\* C16: the core never raises for malformed individual records: on any batch,
\* with missing or unparseable timestamps, timestamps with and without a UTC
\* offset, or missing fields, find_temporal_correlations,
\* find_field_based_correlations and find_pattern_correlations return a result
\* instead of an error (find_temporal_correlations is taken with a non-zero
\* time_window, a zero one being an argument and not a record).
C16_NeverRaises ==
    (/\ call.op \in GroupOps
     /\ call.op = "find_temporal_correlations" => call.time_window # 0)
    => result.status = "ok"

\* C17: detect_error_chains called with a negative max_chain_length fails with
\* an invalid-argument error instead of returning a chain result.
C17_NegativeLengthRejected ==
    (call.op = "detect_error_chains" /\ call.max_chain_length < 0)
    => result.status = "error"

(***************************************************************************)
(* Specification of two /analyze requests with update_baseline=true on the *)
(* one module-level detector, statement by statement                       *)
(***************************************************************************)
MaxCallBatch == 2     \* records in the batch of one request

Tasks == {1, 2}

CallPool ==
    { Log(Naive(0), "ERROR", "api", NoMsg, Absent, Absent, Absent, Absent),
      Log(Naive(3600), "INFO", "api", <<Word("GET"), KeyWord("response_time", ":", "45")>>,
          Absent, Absent, Absent, Absent),
      Log(Naive(7200), "Critical", "db",
          <<KeyWord("response_time", "", ""), Word("120ms")>>,
          Absent, Absent, Absent, Absent) }

CallBatches == SeqsUpTo(CallPool, MaxCallBatch)

\* a request not yet sent. overlapped is history: some other request was in
\* flight while this one was.
IdleTask == [pc |-> "idle", batch |-> <<>>, locals |-> EmptyBaseline, overlapped |-> FALSE]

InFlight(t) == tasks[t].pc \notin {"idle", "done"}

\* between the first statement of the handler and its return
InHandler(t) == tasks[t].pc \in {"computed", "wrote_hourly_volume", "wrote_error_rate"}

HandlerYieldsAnywhere == TRUE

\* the handler is a coroutine without an await, and update_baseline is a plain
\* method: once started, it runs to its return before the event loop (the one
\* loop of the one uvicorn server) starts another handler
HandlerYields == FALSE

\* the event loop may run a statement of request t
Runnable(t) == HandlerYields \/ \A u \in Tasks \ {t} : ~InHandler(u)

InitCalls ==
    /\ logs = <<>>
    /\ hist = <<>>
    /\ config = DefaultConfig
    /\ baseline = EmptyBaseline
    /\ now = StartClock
    /\ call = NoCall
    /\ result = NoResult
    /\ prev = NoResult
    /\ tasks = [t \in Tasks |-> IdleTask]
    /\ detected_anomalies = NoAnomalies

\* a client sends POST /analyze?update_baseline=true with a batch
Receive(t) ==
    \E batch \in CallBatches :
        LET others == {u \in Tasks \ {t} : InFlight(u)} IN
        /\ tasks[t].pc = "idle"
        /\ tasks' = [u \in Tasks |->
                        IF u = t
                        THEN [tasks[t] EXCEPT !.pc = "pending", !.batch = batch,
                                              !.overlapped = others # {}]
                        ELSE IF u \in others THEN [tasks[u] EXCEPT !.overlapped = TRUE]
                        ELSE tasks[u]]
        /\ UNCHANGED <<logs, now, call, result, prev, hist, config, baseline, detected_anomalies>>

\* update_baseline up to the assignments: "if not logs: return", else the
\* three local lists built from the batch
Compute(t) ==
    /\ tasks[t].pc = "pending"
    /\ Runnable(t)
    /\ tasks' = [tasks EXCEPT ![t] =
                    IF tasks[t].batch = <<>>
                    THEN [@ EXCEPT !.pc = "done"]
                    ELSE [@ EXCEPT !.pc = "computed",
                                   !.locals = update_baseline(baseline, tasks[t].batch)]]
    /\ UNCHANGED <<logs, now, call, result, prev, hist, config, baseline, detected_anomalies>>

\* self.baseline_data['hourly_volume'] = list(hourly_counts.values())
WriteHourlyVolume(t) ==
    /\ tasks[t].pc = "computed"
    /\ Runnable(t)
    /\ baseline' = [baseline EXCEPT !.hourly_volume = tasks[t].locals.hourly_volume]
    /\ tasks' = [tasks EXCEPT ![t].pc = "wrote_hourly_volume"]
    /\ UNCHANGED <<logs, now, call, result, prev, hist, config, detected_anomalies>>

\* self.baseline_data['error_rate'] = error_rates
WriteErrorRate(t) ==
    /\ tasks[t].pc = "wrote_hourly_volume"
    /\ Runnable(t)
    /\ baseline' = [baseline EXCEPT !.error_rate = tasks[t].locals.error_rate]
    /\ tasks' = [tasks EXCEPT ![t].pc = "wrote_error_rate"]
    /\ UNCHANGED <<logs, now, call, result, prev, hist, config, detected_anomalies>>

\* self.baseline_data['response_times'] = response_times, and the return
WriteResponseTimes(t) ==
    /\ tasks[t].pc = "wrote_error_rate"
    /\ Runnable(t)
    /\ baseline' = [baseline EXCEPT !.response_times = tasks[t].locals.response_times]
    /\ tasks' = [tasks EXCEPT ![t].pc = "done"]
    /\ UNCHANGED <<logs, now, call, result, prev, hist, config, detected_anomalies>>

NextCalls ==
    \E t \in Tasks :
        \/ Receive(t)
        \/ Compute(t)
        \/ WriteHourlyVolume(t)
        \/ WriteErrorRate(t)
        \/ WriteResponseTimes(t)

SpecCalls == InitCalls /\ [][NextCalls]_vars

\* what the call of request t alone produces on the detector
Alone(t) == update_baseline(EmptyBaseline, tasks[t].batch)

ClaimedPattern(i) ==
    LET words == LowerWords(logs[i].message) IN
    IF Len(words) >= 3 THEN FirstThree(words) ELSE Absent

ClaimedBucket(pattern) == {i \in 1..Len(logs) : ClaimedPattern(i) = pattern}

RepeatReturned ==
    SelectSeq(result.anomalies, LAMBDA a : a.id[1] = "pattern_repeat")

\* C19: in detect_pattern_anomalies every record whose message has at least
\* three words, exactly three included, is counted in the bucket of its first
\* three lowercase words; a bucket yields an anomaly if and only if
\* count / batch_size > 0.1 and count > 5, one anomaly per such bucket, of
\* severity medium and confidence min(0.9, 2 * frequency). Stated for a
\* baseline of at least 10 error-rate samples.
C19_RepeatAnomalyPerBucket ==
    (call.op = "detect_pattern_anomalies" /\ Len(baseline.error_rate) >= MinErrorBaseline) =>
        LET patterns == {ClaimedPattern(i) : i \in 1..Len(logs)} \ {Absent}
            total == Len(logs)
        IN  /\ \A p \in patterns :
                   LET count == Cardinality(ClaimedBucket(p)) IN
                   Cardinality({k \in 1..Len(RepeatReturned) : RepeatReturned[k].id[3] = p})
                       = IF 10 * count > total /\ count > 5 THEN 1 ELSE 0
            /\ \A k \in 1..Len(RepeatReturned) :
                   LET a == RepeatReturned[k] IN
                   /\ a.id[3] \in patterns
                   /\ a.severity = "medium"
                   /\ a.confidence
                          = Min(900, (2000 * Cardinality(ClaimedBucket(a.id[3]))) \div total)

\* C20: the affected_logs of a repeated-pattern anomaly are the first 5
\* records, in input order, of the bucket that triggered it: every affected
\* log has the pattern as its first three lowercase message words, and a
\* bucket of 5 or more records lists exactly 5.
C20_AffectedLogsFromBucket ==
    call.op = "detect_pattern_anomalies" =>
        \A k \in 1..Len(RepeatReturned) :
            LET a == RepeatReturned[k]
                bucket == ClaimedBucket(a.id[3])
            IN  /\ \A j \in 1..Len(a.affected_logs) : a.affected_logs[j] \in bucket
                /\ a.affected_logs = Take(Ascending(bucket), 5)

ErrorReturned ==
    SelectSeq(result.anomalies, LAMBDA a : a.id[1] = "pattern_error")

ErrorLevelRecords ==
    {i \in 1..Len(logs) : Lower(Get(logs[i], "level", "")) \in {"error", "critical", "fatal"}}

\* C21: the error-rate check emits at most one anomaly per call, and only when
\* the baseline has at least 10 error-rate samples and the batch's error
\* fraction is strictly greater than baseline_mean + 0.1 * sensitivity; its
\* severity is critical if the fraction > 0.5, high if > 0.2, else medium; its
\* confidence is min(0.95, (rate - threshold) / threshold), in thousandths (a
\* zero threshold gives 0.95); its affected_logs are at most 10 records, all
\* at level error, critical or fatal. Fractions are compared over the common
\* denominator 100 * batch size * samples, sensitivity being in tenths.
C21_ErrorRateAnomaly ==
    call.op = "detect_pattern_anomalies" =>
        LET total == Len(logs)
            errors == Cardinality(ErrorLevelRecords)
            samples == Len(baseline.error_rate)
            rate == 100 * errors * samples
            threshold == 100 * SumSeq(baseline.error_rate) * total
                             + config.sensitivity * total * samples
        IN  /\ Len(ErrorReturned) <= 1
            /\ \A k \in 1..Len(ErrorReturned) :
                   LET a == ErrorReturned[k] IN
                   /\ samples >= 10
                   /\ total > 0
                   /\ rate > threshold
                   /\ a.severity = IF 2 * errors > total THEN "critical"
                                   ELSE IF 5 * errors > total THEN "high"
                                   ELSE "medium"
                   /\ a.confidence = IF threshold = 0 THEN 950
                                     ELSE IF (1000 * (rate - threshold)) \div threshold > 950
                                     THEN 950
                                     ELSE (1000 * (rate - threshold)) \div threshold
                   /\ Len(a.affected_logs) <= 10
                   /\ \A j \in 1..Len(a.affected_logs) :
                          a.affected_logs[j] \in ErrorLevelRecords

\* C21 witness: an error-rate anomaly of severity medium and confidence below
\* the cap, on a batch whose error fraction is at most 0.2
C21_Witness ==
    /\ call.op = "detect_pattern_anomalies"
    /\ Len(ErrorReturned) = 1
    /\ ErrorReturned[1].severity = "medium"
    /\ ErrorReturned[1].confidence < 950
    /\ ErrorReturned[1].affected_logs # <<>>

\* n * n times the population variance of the baseline's hourly volumes
ClaimedVar ==
    LET xs == baseline.hourly_volume IN
    Len(xs) * SumSeq([k \in 1..Len(xs) |-> xs[k] * xs[k]]) - SumSeq(xs) * SumSeq(xs)

\* a > b * std * n, by squares
ClaimedGt(a, b) == a > 0 /\ a * a > b * b * ClaimedVar

\* current_volume > (fnum / fden) * (mean + 2 * std * sensitivity), all terms
\* times 10 * n * fden, sensitivity being in tenths
ClaimedAbove(fnum, fden) ==
    LET xs == baseline.hourly_volume IN
    ClaimedGt(10 * Len(xs) * fden * Len(logs) - 10 * fnum * SumSeq(xs),
              2 * fnum * config.sensitivity)

\* current_volume < (fnum / fden) * max(0, mean - 2 * std * sensitivity)
ClaimedBelow(fnum, fden) ==
    LET xs == baseline.hourly_volume IN
    /\ ClaimedGt(10 * SumSeq(xs), 2 * config.sensitivity)
    /\ ClaimedGt(10 * fnum * SumSeq(xs) - 10 * Len(xs) * fden * Len(logs),
                 2 * fnum * config.sensitivity)

\* C22: when the batch has at least min_samples records and the baseline at
\* least 5 hourly volumes, with high_threshold = mean + 2 * std * sensitivity
\* and low_threshold = max(0, mean - 2 * std * sensitivity): if current_volume
\* > high_threshold the anomaly is high when current_volume > 1.5 *
\* high_threshold and medium otherwise, with the first 10 records as
\* affected_logs; else if current_volume < low_threshold it is medium when
\* current_volume < 0.5 * low_threshold and low otherwise, with the whole
\* batch as affected_logs; and baseline [10,10,10,10,10], sensitivity 1.0,
\* min_samples 5 and 20 logs give one anomaly of severity high.
C22_VolumeSeverity ==
    (/\ call.op = "detect_volume_anomalies"
     /\ Len(logs) >= config.min_samples
     /\ Len(baseline.hourly_volume) >= 5)
    => LET out == result.anomalies IN
       /\ ClaimedAbove(1, 1) =>
              /\ Len(out) = 1
              /\ out[1].id[1] = "volume_high"
              /\ out[1].severity = IF ClaimedAbove(3, 2) THEN "high" ELSE "medium"
              /\ out[1].affected_logs
                     = [k \in 1..(IF Len(logs) < 10 THEN Len(logs) ELSE 10) |-> k]
       /\ (~ClaimedAbove(1, 1) /\ ClaimedBelow(1, 1)) =>
              /\ Len(out) = 1
              /\ out[1].id[1] = "volume_low"
              /\ out[1].severity = IF ClaimedBelow(1, 2) THEN "medium" ELSE "low"
              /\ out[1].affected_logs = [k \in 1..Len(logs) |-> k]
       /\ (/\ baseline.hourly_volume = <<10, 10, 10, 10, 10>>
           /\ config.sensitivity = 10
           /\ config.min_samples = 5
           /\ Len(logs) = 20) =>
              /\ Len(out) = 1
              /\ out[1].severity = "high"

\* C22 witness: a high-volume anomaly of severity medium at a volume of
\* exactly 1.5 times the baseline mean, which with equal hourly volumes is
\* 1.5 times the threshold
C22_Witness ==
    /\ call.op = "detect_volume_anomalies"
    /\ Len(logs) >= config.min_samples
    /\ Len(baseline.hourly_volume) >= 5
    /\ Len(result.anomalies) = 1
    /\ result.anomalies[1].id[1] = "volume_high"
    /\ result.anomalies[1].severity = "medium"
    /\ 2 * Len(baseline.hourly_volume) * Len(logs) = 3 * SumSeq(baseline.hourly_volume)

\* C23: detect_volume_anomalies returns an empty list, without error, whenever
\* the batch has fewer than min_samples records or the baseline has fewer
\* than 5 hourly-volume samples, a detector whose baseline was never updated
\* included.
C23_EmptyWithoutPreconditions ==
    (/\ call.op = "detect_volume_anomalies"
     /\ \/ Len(logs) < config.min_samples
        \/ Len(baseline.hourly_volume) < 5)
    => /\ result.status = "ok"
       /\ result.anomalies = <<>>

\* C23 witness: a baseline of 4 hourly volumes, all 1, and a batch of 8
\* records, at least min_samples, give no anomaly
C23_Witness ==
    /\ call.op = "detect_volume_anomalies"
    /\ baseline.hourly_volume = <<1, 1, 1, 1>>
    /\ Len(logs) = 8
    /\ Len(logs) >= config.min_samples
    /\ result.anomalies = <<>>

\* the records of the last non-empty batch whose timestamp parses
ClaimedParsed == {i \in 1..Len(prev.value) : prev.value[i].timestamp.kind # "bad"}

ClaimedHour(i) == (prev.value[i].timestamp.t \div 3600) % 24

ClaimedErrorLevel(i) ==
    prev.value[i].level \in {"error", "Error", "ERROR", "critical", "Critical", "CRITICAL",
                             "fatal", "Fatal", "FATAL"}

\* C24: in update_baseline a record whose timestamp cannot be parsed
\* contributes nothing to hourly_volume, error_rate or response_times and does
\* not abort the update (the baseline is that of the batch without these
\* records); every other record adds exactly one count to its hour bucket and
\* exactly one sample to error_rate, 1 if its level is error, critical or
\* fatal in any letter case and 0 otherwise, and error_rate keeps the input
\* order of those records.
C24_UnparsedRecordsContributeNothing ==
    (call.op = "update_baseline" /\ prev.status = "batch") =>
        LET hours == {ClaimedHour(i) : i \in ClaimedParsed}
            count == [h \in hours |-> Cardinality({i \in ClaimedParsed : ClaimedHour(i) = h})]
            kept == [k \in 1..Cardinality(ClaimedParsed) |-> prev.value[Nth(ClaimedParsed, k)]]
        IN  /\ Len(baseline.hourly_volume) = Cardinality(hours)
            /\ \A v \in Range(baseline.hourly_volume) \cup {count[h] : h \in hours} :
                   Cardinality({k \in 1..Len(baseline.hourly_volume) :
                                   baseline.hourly_volume[k] = v})
                       = Cardinality({h \in hours : count[h] = v})
            /\ baseline.error_rate
                   = [k \in 1..Cardinality(ClaimedParsed) |->
                         IF ClaimedErrorLevel(Nth(ClaimedParsed, k)) THEN 1 ELSE 0]
            /\ kept # <<>> => baseline = update_baseline(EmptyBaseline, kept)
            /\ kept = <<>> => baseline = EmptyBaseline

\* C24 witness: the batch holds a record with an unparseable timestamp, at an
\* error level and with a response time in its message, between two records
\* that parse, the second of them at an error level spelt with capitals
C24_Witness ==
    /\ call.op = "update_baseline"
    /\ prev.status = "batch"
    /\ hist = prev.value
    /\ Len(hist) = 3
    /\ hist[1].timestamp.kind # "bad"
    /\ hist[2].timestamp.kind = "bad"
    /\ hist[2].level = "FATAL"
    /\ hist[3].timestamp.kind # "bad"
    /\ hist[3].level = "Critical"
    /\ baseline.error_rate = <<0, 1>>

\* the instant of record i at the call: its timestamp, or the clock of the
\* call when the timestamp does not parse
ClaimedInstant(i) ==
    IF logs[i].timestamp.kind = "bad" THEN call.clock ELSE logs[i].timestamp.t

ClaimedDistance(i, j) ==
    IF ClaimedInstant(i) >= ClaimedInstant(j)
    THEN ClaimedInstant(i) - ClaimedInstant(j)
    ELSE ClaimedInstant(j) - ClaimedInstant(i)

\* the other logs of the batch within time_window seconds of record i
ClaimedNear(i) ==
    {j \in 1..Len(logs) : j # i /\ ClaimedDistance(i, j) <= call.time_window}

\* C25: find_temporal_correlations emits one group for exactly those input
\* logs that have at least one other log within time_window seconds of them
\* (at most one group per input log); the group's related_logs are all other
\* logs of the batch whose absolute timestamp distance from the primary is
\* <= time_window, time_span is the largest such distance, and
\* correlation_strength = max(0.1, 1 - avg_distance / time_window), in
\* thousandths. Stated for time_window # 0.
C25_TemporalGroupPerLog ==
    (call.op = "find_temporal_correlations" /\ call.time_window # 0) =>
        /\ result.status = "ok"
        /\ \A i \in 1..Len(logs) :
               Cardinality({k \in 1..Len(result.groups) : result.groups[k].primary_log = i})
                   = IF ClaimedNear(i) # {} THEN 1 ELSE 0
        /\ \A k \in 1..Len(result.groups) :
               LET g == result.groups[k]
                   near == ClaimedNear(g.primary_log)
                   total == SumSeq([n \in 1..Cardinality(near) |->
                                       ClaimedDistance(g.primary_log, Nth(near, n))])
                   scaled == 1000 - (1000 * total) \div (Cardinality(near) * call.time_window)
               IN  /\ Range(g.related_logs) = near
                   /\ Len(g.related_logs) = Cardinality(near)
                   /\ \A j \in near : ClaimedDistance(g.primary_log, j) <= g.time_span
                   /\ \E j \in near : ClaimedDistance(g.primary_log, j) = g.time_span
                   /\ g.correlation_strength = IF scaled < 100 THEN 100 ELSE scaled

\* C26: in find_related_logs a correlation field counts toward the compared
\* and the matching fields only when it is present on both the primary and
\* the candidate, a field whose value is the empty string being treated as
\* missing: no returned log matches on a field that is empty on either side,
\* and field_matches counts the matching_fields.
C26_EmptyFieldNotCompared ==
    (call.op = "find_related_logs" /\ result.status = "ok") =>
        \A k \in 1..Len(result.related_logs) :
            LET r == result.related_logs[k] IN
            /\ r.field_matches = Len(r.matching_fields)
            /\ \A n \in 1..Len(r.matching_fields) :
                   /\ call.primary_log[r.matching_fields[n]] # ""
                   /\ logs[r.log][r.matching_fields[n]] # ""

\* C27: every flow emitted by trace_service_flows is built from at least 2
\* distinct log records and no record appears twice in one flow's timeline: a
\* single record that carries the same value under two identifier fields does
\* not form a flow on its own.
C27_FlowOfDistinctRecords ==
    (call.op = "trace_service_flows" /\ result.status = "ok") =>
        \A k \in 1..Len(result.flows) :
            LET timeline == result.flows[k].timeline IN
            /\ Cardinality({timeline[n].log : n \in 1..Len(timeline)}) >= 2
            /\ \A a, b \in 1..Len(timeline) : a # b => timeline[a].log # timeline[b].log

\* C28: after any sequence of update_baseline calls on one detector, run one
\* at a time, the sum of the hourly_volume counts equals the length of
\* error_rate, hourly_volume has at most 24 entries and every entry is >= 1.
C28_VolumeCountsMatchSamples ==
    /\ SumSeq(baseline.hourly_volume) = Len(baseline.error_rate)
    /\ Len(baseline.hourly_volume) <= 24
    /\ \A k \in 1..Len(baseline.hourly_volume) : baseline.hourly_volume[k] >= 1

\* C28 witness: a batch of two records of the same hour of two different days
\* and one record whose timestamp does not parse left one bucket of 2
C28_Witness ==
    /\ call.op = "update_baseline"
    /\ Len(hist) = 3
    /\ \E a, b, c \in 1..3 :
           /\ hist[a].timestamp.kind = "naive"
           /\ hist[b].timestamp.kind = "naive"
           /\ hist[a].timestamp.t + 86400 = hist[b].timestamp.t
           /\ hist[c].timestamp.kind = "bad"
    /\ baseline.hourly_volume = <<2>>
    /\ Len(baseline.error_rate) = 2

(***************************************************************************)
(* Specification of the anomaly store: POST /analyze, DELETE /clear        *)
(***************************************************************************)
MaxEmitted == 3       \* anomalies emitted and not cleared before /analyze stops

StoreBatches ==
    { <<>>, HourlyBatch, Repeat(FailureLog, 2 * MaxPatternCount),
      Repeat(RepeatedLog, MaxPatternCount) }

ClearHours == {0, 24}

\* "for anomaly in anomalies: detected_anomalies[anomaly.id] = anomaly": a
\* later anomaly of the same id replaces the earlier one. timestamp is the
\* anomaly's datetime.now(), in seconds.
Store(store, anomalies, clk) ==
    LET ids == {anomalies[k].id : k \in 1..Len(anomalies)}
        last == [id \in ids |->
                    CHOOSE k \in 1..Len(anomalies) :
                        /\ anomalies[k].id = id
                        /\ \A j \in (k + 1)..Len(anomalies) : anomalies[j].id # id]
    IN  [id \in DOMAIN store \cup ids |->
            IF id \in ids THEN [anomaly |-> anomalies[last[id]], timestamp |-> clk]
            ELSE store[id]]

\* "anomaly.timestamp < cutoff_time" with cutoff_time = datetime.now() -
\* timedelta(hours=older_than_hours): the anomaly's clock reading came before
\* the one of /clear, so equal seconds still compare as earlier
OlderThan(timestamp, hours, clk) == timestamp + 3600 * hours <= clk

InitStore ==
    /\ logs = <<>>
    /\ hist = <<>>
    /\ config = DefaultConfig
    /\ baseline = EmptyBaseline
    /\ now = StartClock
    /\ call = NoCall
    /\ result = NoResult
    /\ prev = [status |-> "counted", outstanding |-> 0]
    /\ tasks = NoTasks
    /\ detected_anomalies = NoAnomalies

\* POST /analyze: prev counts the anomalies emitted and not cleared
AnalyzeRoute ==
    \E batch \in StoreBatches, update \in BOOLEAN :
        LET base == IF update THEN update_baseline(baseline, batch) ELSE baseline
            anomalies == analyze_logs(config, base, batch, now)
        IN  /\ prev.outstanding < MaxEmitted
            /\ logs' = batch
            /\ baseline' = base
            /\ detected_anomalies' = Store(detected_anomalies, anomalies, now)
            /\ call' = [op |-> "analyze_logs_for_anomalies", update_baseline |-> update,
                        clock |-> now]
            /\ result' = [status |-> "ok", anomalies |-> anomalies]
            /\ prev' = [prev EXCEPT !.outstanding = @ + Len(anomalies)]
            /\ UNCHANGED <<now, hist, config, tasks>>

\* DELETE /clear?older_than_hours=hours
ClearAnomalies ==
    \E hours \in ClearHours :
        LET anomalies_to_remove ==
                {id \in DOMAIN detected_anomalies :
                    OlderThan(detected_anomalies[id].timestamp, hours, now)}
        IN  /\ detected_anomalies' =
                   [id \in DOMAIN detected_anomalies \ anomalies_to_remove |->
                       detected_anomalies[id]]
            /\ call' = [op |-> "clear_anomalies", older_than_hours |-> hours, clock |-> now]
            /\ result' = [status |-> "ok",
                          cleared |-> Cardinality(anomalies_to_remove),
                          remaining_anomalies |-> Cardinality(DOMAIN detected_anomalies')]
            /\ prev' = [prev EXCEPT !.outstanding = @ - Cardinality(anomalies_to_remove)]
            /\ UNCHANGED <<logs, now, hist, config, baseline, tasks>>

\* datetime.now() advances between requests
StoreTick ==
    /\ now < StartClock + MaxTicks
    /\ now' = now + 1
    /\ UNCHANGED <<logs, call, result, prev, detectorVars>>

NextStore == AnalyzeRoute \/ ClearAnomalies \/ StoreTick

SpecStore == InitStore /\ [][NextStore]_vars

\* C29: every anomaly returned by /analyze stays retrievable from the
\* detected-anomalies store until a /clear call removes it: distinct
\* anomalies, of one call or of successive calls, calls within one clock
\* second included, never overwrite one another, so the store's size is the
\* number of anomalies emitted minus the number cleared.
C29_StoreKeepsEveryAnomaly ==
    Cardinality(DOMAIN detected_anomalies) = prev.outstanding

\* C30: find_temporal_correlations completes without error for every integer
\* time_window, 0 and negative values included, on every batch, batches in
\* which two records have identical timestamps included; with time_window < 0
\* no temporal group is emitted. Stated for batches whose timestamps all
\* parse and carry no UTC offset.
C30_AnyTimeWindowCompletes ==
    (/\ call.op = "find_temporal_correlations"
     /\ \A i \in 1..Len(logs) : logs[i].timestamp.kind = "naive")
    => /\ result.status = "ok"
       /\ call.time_window < 0 => result.groups = <<>>

====
